---------------------------- MODULE Spec2Model ----------------------------
(***************************************************************************)
(* A model of the code-search MCP tools: the code-item locator             *)
(* (view_code_items), the outline extractor (view_files_outlines) and the  *)
(* full-context view (view_files_full_context).                            *)
(*                                                                         *)
(* Text is modelled as sequences of tokens: a line is a sequence whose     *)
(* elements are either a single punctuation character (" ", "{", "}",      *)
(* ";", "@", "*", "/", ".", "(", ")") or a whole identifier.  Line indices *)
(* are 0-based as in the source; At(lines, i) is lines[i] of the source.   *)
(***************************************************************************)
EXTENDS Integers, Sequences, FiniteSets, TLC

VARIABLES
    lines,       \* the line list of the file under analysis (content.split("\n"))
    hitIndex,    \* itemIndex / hitIndex: 0-based index of the matched line
    frame,       \* the locals of findBlockRange after it ran
    blockRange,  \* what findBlockRange returned: [start, end] or NoRange
    snippet,     \* the SnippetResult built from blockRange
    fsys,        \* the file system: directories and files
    cwd,         \* process.cwd()
    tool,        \* which tool handler is running
    request,     \* the batch argument handed to the handler
    order,       \* the entries the handler maps over (Items / AbsolutePaths / sortedPaths)
    tasks,       \* per position: the promise of the entry's task (not run / outcome)
    pending,     \* positions whose promise Promise.all has not seen settle
    results,     \* the array Promise.all fills, one slot per position
    response,    \* what the handler returned
    startPath,   \* the argument of findProjectRoot
    topPomRoot,  \* findTopPomRoot: lastPomRoot while it loops, then its result
    current,     \* findProjectRoot: the directory the upward walk is at
    lastSrcRoot, \* findProjectRoot: last directory seen that has a src child
    lastMultiModuleRoot, \* findProjectRoot: last multi-module directory seen
    iter,        \* parity of the number of loop iterations the walk has made
    analysis,    \* the import analysis of one .java file: its stage and locals
    language,    \* the language id parseOutline is called with
    outlineItems, \* the items parseOutline returned
    fieldInfos,  \* the fields extractJavaFieldDetails returned
    pc           \* position of the running operation

vars == <<lines, hitIndex, frame, blockRange, snippet, fsys, cwd, tool, request,
          order, tasks, pending, results, response, startPath, topPomRoot, current,
          lastSrcRoot, lastMultiModuleRoot, iter, analysis, language,
          outlineItems, fieldInfos, pc>>

blockVars == <<lines, hitIndex, frame, blockRange, snippet>>
batchVars == <<fsys, cwd, tool, request, order, tasks, pending, results, response>>
walkVars == <<startPath, topPomRoot, current, lastSrcRoot, lastMultiModuleRoot, iter>>

\* A value for a variable the running specification does not use.
Unused == "unused"

BlockUnused ==
    /\ lines = Unused /\ hitIndex = Unused /\ frame = Unused
    /\ blockRange = Unused /\ snippet = Unused

BatchUnused ==
    /\ fsys = Unused /\ cwd = Unused /\ tool = Unused /\ request = Unused
    /\ order = Unused /\ tasks = Unused /\ pending = Unused
    /\ results = Unused /\ response = Unused

WalkUnused ==
    /\ startPath = Unused /\ topPomRoot = Unused /\ current = Unused
    /\ lastSrcRoot = Unused /\ lastMultiModuleRoot = Unused /\ iter = Unused

ContextUnused == analysis = Unused

extractVars == <<language, outlineItems, fieldInfos>>

ExtractUnused ==
    language = Unused /\ outlineItems = Unused /\ fieldInfos = Unused

---------------------------------------------------------------------------
(* Bounds of the model.                                                    *)

\* Longest file whose every line is drawn from LineKinds.
MaxLines == 3
\* Longest file of plain lines (long enough for the 10/60 window to clip).
MaxLongLines == 72

---------------------------------------------------------------------------
(* Strings as token sequences.                                             *)

Min(a, b) == IF a < b THEN a ELSE b
Max(a, b) == IF a > b THEN a ELSE b

\* lines[i] of the source, i 0-based.
At(ls, i) == ls[i + 1]

\* lines.slice(from, to): elements from..to-1, 0-based, clipped as Array.slice does.
Slice(ls, from, to) == SubSeq(ls, Max(from, 0) + 1, Min(to, Len(ls)))

RECURSIVE FirstNonSpace(_, _)
FirstNonSpace(line, i) ==
    IF i > Len(line) THEN i
    ELSE IF line[i] = " " THEN FirstNonSpace(line, i + 1) ELSE i

RECURSIVE LastNonSpace(_, _)
LastNonSpace(line, i) ==
    IF i < 1 THEN i
    ELSE IF line[i] = " " THEN LastNonSpace(line, i - 1) ELSE i

\* String.prototype.trim
trim(line) == SubSeq(line, FirstNonSpace(line, 1), LastNonSpace(line, Len(line)))

\* String.prototype.startsWith / endsWith / includes, on token sequences.
startsWith(line, pre) ==
    Len(line) >= Len(pre) /\ SubSeq(line, 1, Len(pre)) = pre

endsWith(line, suf) ==
    Len(line) >= Len(suf) /\ SubSeq(line, Len(line) - Len(suf) + 1, Len(line)) = suf

includes(line, pat) ==
    \E i \in 1..(Len(line) - Len(pat) + 1) : SubSeq(line, i, i + Len(pat) - 1) = pat

MinOf(S) == CHOOSE x \in S : \A y \in S : x <= y

\* The loop "for (i = from; i < lines.length; i += 1) if (lines[i] in S) return i;
\* return -1": the first index at or after from whose line is in S.
FirstLineIn(ls, S, from) ==
    LET hits == {i \in from..(Len(ls) - 1) : At(ls, i) \in S} IN
        IF hits = {} THEN -1 ELSE MinOf(hits)

---------------------------------------------------------------------------
(* Block Range Resolver (findBlockRange and its helpers).                  *)

\* findBlockRange returned null.
NoRange == [found |-> FALSE]

\* The test of the upward walk on lines[index - 1]: blank, an annotation or a
\* comment line/continuation.
SkippedAbove(ls, index) ==
    LET trimmed == trim(At(ls, index - 1)) IN
        \/ trimmed = <<>>
        \/ startsWith(trimmed, <<"@">>)
        \/ startsWith(trimmed, <<"*">>)
        \/ startsWith(trimmed, <<"/", "*", "*">>)
        \/ startsWith(trimmed, <<"*", "/">>)

\* A walk that gives up after one line (a faulty variant of findSignatureStart).
findSignatureStartOneLine(ls, hit) ==
    IF hit > 0 /\ SkippedAbove(ls, hit) THEN hit - 1 ELSE hit

\* The while loop: index goes down from hit as long as index > 0 and the line
\* above is skipped; it ends at the least index from which every line up to
\* the hit is skipped.
findSignatureStart(ls, hit) ==
    MinOf({j \in 0..hit : \A k \in (j + 1)..hit : SkippedAbove(ls, k)})

HasOpenBrace(line) == includes(line, <<"{">>)
HasTerminator(line) == includes(line, <<";">>)

findOpenBraceIndex(ls, startIndex) ==
    LET hits == {i \in startIndex..(Len(ls) - 1) : HasOpenBrace(At(ls, i))} IN
        IF hits = {} THEN -1 ELSE MinOf(hits)

\* The two tests of the loop swapped: the ";" test first (a faulty variant of
\* findSignatureEndIndex).
findSignatureEndIndexTerminatorFirst(ls, startIndex) ==
    LET stops == {i \in startIndex..(Len(ls) - 1) :
                    HasOpenBrace(At(ls, i)) \/ HasTerminator(At(ls, i))}
    IN  IF stops = {} THEN -1
        ELSE IF HasTerminator(At(ls, MinOf(stops))) THEN MinOf(stops)
        ELSE -1

\* The loop returns at the first line that holds a "{" (-1) or a ";" (its index),
\* the "{" test first.
findSignatureEndIndex(ls, startIndex) ==
    LET stops == {i \in startIndex..(Len(ls) - 1) :
                    HasOpenBrace(At(ls, i)) \/ HasTerminator(At(ls, i))}
    IN  IF stops = {} THEN -1
        ELSE IF HasOpenBrace(At(ls, MinOf(stops))) THEN -1
        ELSE MinOf(stops)

\* The character loop of findMatchingBraceIndex on one line, from character k
\* with the running depth: TRUE when a "}" brings the depth to zero.
RECURSIVE ClosesInLine(_, _, _)
ClosesInLine(line, k, depth) ==
    IF k > Len(line) THEN FALSE
    ELSE IF line[k] = "{" THEN ClosesInLine(line, k + 1, depth + 1)
    ELSE IF line[k] = "}" THEN
        (depth - 1 = 0) \/ ClosesInLine(line, k + 1, depth - 1)
    ELSE ClosesInLine(line, k + 1, depth)

\* The positions <<line, character>> of lines from..to that hold ch.
PositionsOf(ls, from, to, ch) ==
    UNION {{<<j, k>> : k \in {n \in 1..Len(At(ls, j)) : At(ls, j)[n] = ch}} :
             j \in from..to}

\* depth when the loop enters line i without having returned: every "{" and "}"
\* of lines openIndex..i-1 counted, from the first character of line openIndex.
DepthBefore(ls, openIndex, i) ==
    Cardinality(PositionsOf(ls, openIndex, i - 1, "{"))
        - Cardinality(PositionsOf(ls, openIndex, i - 1, "}"))

findMatchingBraceIndex(ls, openIndex) ==
    LET ends == {i \in openIndex..(Len(ls) - 1) :
                   ClosesInLine(At(ls, i), 1, DepthBefore(ls, openIndex, i))}
    IN  IF ends = {} THEN -1 ELSE MinOf(ends)

\* The locals of findBlockRange; openRan / matchRan say whether findOpenBraceIndex
\* and findMatchingBraceIndex were called (a call not made leaves -1).
BlockFrame(ls, hit) ==
    LET signatureIndex == findSignatureStart(ls, hit)
        signatureEndIndex == findSignatureEndIndex(ls, signatureIndex)
        openRan == signatureEndIndex = -1
        openIndex == IF openRan THEN findOpenBraceIndex(ls, signatureIndex) ELSE -1
        matchRan == openRan /\ openIndex # -1
        endIndex == IF matchRan THEN findMatchingBraceIndex(ls, openIndex) ELSE -1
    IN  [signatureIndex |-> signatureIndex,
         signatureEndIndex |-> signatureEndIndex,
         openRan |-> openRan,
         openIndex |-> openIndex,
         matchRan |-> matchRan,
         endIndex |-> endIndex]

\* The return statements of findBlockRange, over its locals.
RangeOfFrame(f) ==
    IF f.signatureEndIndex # -1
    THEN [found |-> TRUE, start |-> f.signatureIndex, end |-> f.signatureEndIndex]
    ELSE IF f.openIndex = -1 THEN NoRange
    ELSE IF f.endIndex = -1 THEN NoRange
    ELSE [found |-> TRUE, start |-> f.signatureIndex, end |-> f.endIndex]

findBlockRange(ls, hit) == RangeOfFrame(BlockFrame(ls, hit))

---------------------------------------------------------------------------
(* extractSnippet, from the matched line on.                               *)

\* Lines of context the fallback window takes before the hit / the offset of
\* its exclusive end from the hit.
WindowBefore == 10
WindowAfter == 60

\* The header line of a located snippet (the source's text is Chinese; the
\* tokens keep its parts: file path, first and last line number, item name).
LocatedHeader(filePath, from, to, name) ==
    <<"--- File: ">> \o filePath \o <<" (line ", ToString(from), " to line ",
      ToString(to), ", locate: '">> \o name \o <<"') ---">>

\* The SnippetResult of the lines start..end-1 (0-based): text is the header
\* line, an empty line and the snippet's lines ("header\n\nsnippet").
LocatedSnippet(ls, start, end, filePath, name) ==
    [found |-> TRUE,
     text |-> <<LocatedHeader(filePath, start + 1, end, name), <<>>>>
                \o Slice(ls, start, end),
     startLine |-> start + 1,
     endLine |-> end]

\* extractSnippet once blockRange is known: the fixed window when there is no
\* range, the range's lines otherwise.
SnippetOfRange(ls, itemIndex, filePath, name, range) ==
    IF ~range.found
    THEN LocatedSnippet(ls, Max(0, itemIndex - WindowBefore),
                        Min(Len(ls), itemIndex + WindowAfter), filePath, name)
    ELSE LocatedSnippet(ls, range.start, range.end + 1, filePath, name)

\* extractSnippet once itemIndex is known (itemIndex # -1).
SnippetAt(ls, itemIndex, filePath, name) ==
    SnippetOfRange(ls, itemIndex, filePath, name, findBlockRange(ls, itemIndex))

\* The snippet's lines in a located text: what follows the header and the
\* empty line.
SnippetBody(text) == SubSeq(text, 3, Len(text))

---------------------------------------------------------------------------
(* The block-range machine: a file and a matched line are given, then      *)
(* findBlockRange runs and extractSnippet builds its result from it.       *)

Blank == <<>>
Annotation == <<"@", "A">>
DocText == <<" ", "*", " ", "a", ";">>
DocLink == <<" ", "*", " ", "{", "@", "a", "}">>
Declaration == <<"m", "(", ")", ";">>
Opener == <<"m", "(", ")", " ", "{">>
Closer == <<"}">>
ElseLine == <<"}", " ", "e", " ", "{">>
ForLine == <<"f", "(", ";", ")", " ", "{">>
OneLiner == <<"m", "(", ")", " ", "{", "}">>
Plain == <<"x">>

LineKinds == {Blank, Annotation, DocText, DocLink, Declaration, Opener, Closer,
              ElseLine, ForLine, OneLiner, Plain}

SeqsUpTo(S, n) == UNION {[1..k -> S] : k \in 1..n}

\* Files of lines without any brace or terminator, of every length up to
\* MaxLongLines.
LongFiles == {[i \in 1..n |-> Plain] : n \in (MaxLines + 1)..MaxLongLines}

\* Files with one unclosed opening line followed by plain lines.
UnclosedFiles == {[i \in 1..n |-> IF i = 1 THEN Opener ELSE Plain] :
                    n \in (MaxLongLines - 1)..MaxLongLines}

BlockFiles == SeqsUpTo(LineKinds, MaxLines) \cup LongFiles \cup UnclosedFiles

BlockFilePath == <<"/", "p", "/", "A", ".", "java">>
BlockItemName == <<"m">>

InitBlock ==
    /\ lines \in BlockFiles
    /\ hitIndex \in 0..(Len(lines) - 1)
    /\ frame = Unused
    /\ blockRange = Unused
    /\ snippet = Unused
    /\ BatchUnused
    /\ WalkUnused
    /\ ContextUnused
    /\ ExtractUnused
    /\ pc = "hit"

\* extractSnippet line 68: the call of findBlockRange.
FindBlockRange ==
    /\ pc = "hit"
    /\ frame' = BlockFrame(lines, hitIndex)
    /\ blockRange' = findBlockRange(lines, hitIndex)
    /\ pc' = "ranged"
    /\ UNCHANGED <<lines, hitIndex, snippet>>
    /\ UNCHANGED batchVars
    /\ UNCHANGED walkVars
    /\ UNCHANGED analysis
    /\ UNCHANGED extractVars

\* extractSnippet lines 69-86: the snippet of the range, or the fixed window.
BuildSnippet ==
    /\ pc = "ranged"
    /\ snippet' = SnippetAt(lines, hitIndex, BlockFilePath, BlockItemName)
    /\ pc' = "done"
    /\ UNCHANGED <<lines, hitIndex, frame, blockRange>>
    /\ UNCHANGED batchVars
    /\ UNCHANGED walkVars
    /\ UNCHANGED analysis
    /\ UNCHANGED extractVars

NextBlock == FindBlockRange \/ BuildSnippet

SpecBlock == InitBlock /\ [][NextBlock]_vars

---------------------------------------------------------------------------
(* Paths and the file system.  A path is the token sequence of its string: *)
(* "/" separators and name tokens ("/w/a/M.java" is "/", "w", "/", "a",    *)
(* "/", "M", ".", "java").                                                 *)

LastSlash(p) ==
    LET at == {k \in 1..Len(p) : p[k] = "/"} IN
        IF at = {} THEN 0 ELSE CHOOSE k \in at : \A j \in at : j <= k

\* path.dirname (POSIX): "." for a path without a separator, "/" for a child
\* of the root.
dirname(p) ==
    IF LastSlash(p) = 0 THEN <<".">>
    ELSE IF LastSlash(p) = 1 THEN <<"/">>
    ELSE SubSeq(p, 1, LastSlash(p) - 1)

\* path.basename
basename(p) == SubSeq(p, LastSlash(p) + 1, Len(p))

\* path.parse(p).root: "/" for an absolute path, "" otherwise.
parseRoot(p) == IF p # <<>> /\ p[1] = "/" THEN <<"/">> ELSE <<>>

\* path.join(dir, rel) for a relative rel without "." or ".." segments.
join(dir, rel) ==
    IF dir = <<".">> \/ dir = <<>> THEN rel
    ELSE IF dir = <<"/">> THEN <<"/">> \o rel
    ELSE dir \o <<"/">> \o rel

\* The absolute path the operating system looks up for p.
Absolute(workdir, p) ==
    IF parseRoot(p) = <<"/">> THEN p
    ELSE IF p = <<".">> THEN workdir
    ELSE join(workdir, p)

\* fs.existsSync / accessSync succeed: a directory or a file is there.
Exists(fs, workdir, p) ==
    p # <<>> /\ Absolute(workdir, p) \in (fs.dirs \cup DOMAIN fs.files)

\* utils/fileSystem.ts
pathExists(fs, workdir, p) == Exists(fs, workdir, p)
isFile(fs, workdir, p) == p # <<>> /\ Absolute(workdir, p) \in DOMAIN fs.files
isDirectory(fs, workdir, p) == p # <<>> /\ Absolute(workdir, p) \in fs.dirs

\* fs.readFileSync(p) returns (it throws on a missing path, a directory, or a
\* file the process may not read).
Readable(fs, workdir, p) ==
    isFile(fs, workdir, p) /\ fs.files[Absolute(workdir, p)].readable

\* content.split("\n") of a readable file.
LinesOf(fs, workdir, p) == fs.files[Absolute(workdir, p)].lines

\* The directories readdirSync(dir) lists.
ChildDirs(fs, workdir, dir) ==
    {d \in fs.dirs : d # <<"/">> /\ dirname(d) = Absolute(workdir, dir)}

---------------------------------------------------------------------------
(* Project-root discovery (findTopPomRoot, findProjectRoot,                *)
(* hasModuleJavaRoots).                                                    *)

SrcName == <<"src">>
PomName == <<"pom", ".", "xml">>
JavaRootRel == <<"src", "/", "main", "/", "java">>

\* null, for a path-valued local (a path is never the empty string here, and
\* the callers test "!root").
NoPath == <<>>

hasModuleJavaRoots(fs, workdir, root) ==
    Cardinality({d \in ChildDirs(fs, workdir, root) :
                   Exists(fs, workdir, join(d, JavaRootRel))}) >= 2

\* The loop condition of both walks: current !== path.parse(current).root.
WalkContinues(cur) == cur # parseRoot(cur)

\* What one iteration of findProjectRoot's loop leaves in lastSrcRoot and
\* lastMultiModuleRoot.
SrcRootAfter(fs, workdir, cur, last) ==
    IF Exists(fs, workdir, join(cur, SrcName)) THEN cur ELSE last

MultiRootAfter(fs, workdir, cur, last) ==
    IF Exists(fs, workdir, join(cur, PomName)) /\ hasModuleJavaRoots(fs, workdir, cur)
    THEN cur ELSE last

PomRootAfter(fs, workdir, cur, last) ==
    IF Exists(fs, workdir, join(cur, PomName)) THEN cur ELSE last

\* The return statements of findProjectRoot.
RootChosen(pomRoot, multi, src) ==
    IF pomRoot # NoPath /\ multi # NoPath THEN multi
    ELSE IF multi # NoPath THEN multi
    ELSE src

\* The directories an upward walk visits from cur, nearest first.  A walk
\* whose loop condition holds at a directory that is its own parent repeats
\* that iteration for ever: loops is TRUE and the walk never returns.
RECURSIVE WalkFrom(_, _)
WalkFrom(cur, visited) ==
    IF ~WalkContinues(cur) THEN [loops |-> FALSE, visited |-> visited]
    ELSE IF dirname(cur) = cur THEN [loops |-> TRUE, visited |-> Append(visited, cur)]
    ELSE WalkFrom(dirname(cur), Append(visited, cur))

UpwardWalk(start) == WalkFrom(dirname(start), <<>>)

\* The value a loop variable ends with: the last visited directory that
\* passes the test, or null.
LastVisited(visited, Test(_)) ==
    LET at == {k \in 1..Len(visited) : Test(visited[k])} IN
        IF at = {} THEN NoPath ELSE visited[CHOOSE k \in at : \A j \in at : j <= k]

findTopPomRoot(fs, workdir, start) ==
    LET HasPom(d) == Exists(fs, workdir, join(d, PomName)) IN
        LastVisited(UpwardWalk(start).visited, HasPom)

\* findProjectRoot for a start path whose walks return.
findProjectRoot(fs, workdir, start) ==
    LET HasSrc(d) == Exists(fs, workdir, join(d, SrcName))
        IsMulti(d) == Exists(fs, workdir, join(d, PomName))
                        /\ hasModuleJavaRoots(fs, workdir, d)
        visited == UpwardWalk(start).visited
    IN  RootChosen(findTopPomRoot(fs, workdir, start),
                   LastVisited(visited, IsMulti),
                   LastVisited(visited, HasSrc))

\* findProjectRoot(start) never returns.
RootWalkLoops(start) == UpwardWalk(start).loops

---------------------------------------------------------------------------
(* The root-discovery machine: findProjectRoot(startPath) run one loop     *)
(* iteration at a time.                                                    *)

WorkDir == <<"/", "w">>
ModuleA == <<"/", "w", "/", "a">>
ModuleB == <<"/", "w", "/", "b">>
ModuleDirs == {WorkDir, ModuleA, ModuleB}

\* A tree with the three directories /w, /w/a and /w/b, a src/main/java
\* subtree under the directories of srcAt and a pom.xml in those of pomAt.
WalkTree(srcAt, pomAt) ==
    [dirs |-> {<<"/">>} \cup ModuleDirs
                \cup UNION {{join(d, <<"src">>), join(d, <<"src", "/", "main">>),
                             join(d, JavaRootRel)} : d \in srcAt},
     files |-> [f \in {join(d, PomName) : d \in pomAt} |->
                  [lines |-> <<<<"<", "project", "/", ">">>>>, readable |-> TRUE]]]

WalkTrees == {WalkTree(s, q) : s \in SUBSET ModuleDirs, q \in SUBSET ModuleDirs}

StartPaths ==
    {<<"/", "w", "/", "a", "/", "src", "/", "main", "/", "java", "/", "U", ".", "java">>,
     <<"/", "w", "/", "a", "/", "M", ".", "java">>,
     <<"/", "w", "/", "x", ".", "java">>,
     <<"/", "x", ".", "java">>,
     <<"a", "/", "M", ".", "java">>,
     <<"M", ".", "java">>}

InitWalk ==
    /\ BlockUnused
    /\ ContextUnused
    /\ ExtractUnused
    /\ fsys \in WalkTrees
    /\ cwd = WorkDir
    /\ tool = Unused /\ request = Unused /\ order = Unused /\ tasks = Unused
    /\ pending = Unused /\ results = Unused /\ response = Unused
    /\ startPath \in StartPaths
    /\ topPomRoot = NoPath
    /\ current = dirname(startPath)
    /\ lastSrcRoot = NoPath
    /\ lastMultiModuleRoot = NoPath
    /\ iter = 0
    /\ pc = "topPom"

walkFixed == <<lines, hitIndex, frame, blockRange, snippet, fsys, cwd, tool, request,
               order, tasks, pending, results, response, startPath, analysis,
               language, outlineItems, fieldInfos>>

\* findTopPomRoot, one iteration of its while loop.
TopPomStep ==
    /\ pc = "topPom"
    /\ WalkContinues(current)
    /\ topPomRoot' = PomRootAfter(fsys, cwd, current, topPomRoot)
    /\ current' = dirname(current)
    /\ iter' = 1 - iter
    /\ UNCHANGED <<lastSrcRoot, lastMultiModuleRoot, pc>>
    /\ UNCHANGED walkFixed

\* findTopPomRoot returns; findProjectRoot's own loop starts from
\* path.dirname(startPath) again.
TopPomReturn ==
    /\ pc = "topPom"
    /\ ~WalkContinues(current)
    /\ current' = dirname(startPath)
    /\ iter' = 0
    /\ pc' = "root"
    /\ UNCHANGED <<topPomRoot, lastSrcRoot, lastMultiModuleRoot>>
    /\ UNCHANGED walkFixed

\* findProjectRoot, one iteration of its while loop.
RootStep ==
    /\ pc = "root"
    /\ WalkContinues(current)
    /\ lastSrcRoot' = SrcRootAfter(fsys, cwd, current, lastSrcRoot)
    /\ lastMultiModuleRoot' = MultiRootAfter(fsys, cwd, current, lastMultiModuleRoot)
    /\ current' = dirname(current)
    /\ iter' = 1 - iter
    /\ UNCHANGED <<topPomRoot, pc>>
    /\ UNCHANGED walkFixed

\* findProjectRoot returns (the result is RootChosen of its locals).
RootReturn ==
    /\ pc = "root"
    /\ ~WalkContinues(current)
    /\ pc' = "returned"
    /\ UNCHANGED <<topPomRoot, current, lastSrcRoot, lastMultiModuleRoot, iter>>
    /\ UNCHANGED walkFixed

NextWalk == TopPomStep \/ TopPomReturn \/ RootStep \/ RootReturn

SpecWalk == InitWalk /\ [][NextWalk]_vars

\* The walk is one synchronous call: once entered, the runtime keeps executing it.
SpecWalkFair == SpecWalk /\ WF_vars(NextWalk)

---------------------------------------------------------------------------
(* Code Item Locator (view_code_items): text scanning helpers.             *)

\* Tokens that are not identifier text: punctuation, white space and the
\* literal pieces of the headers the tools print.
HeaderLiterals ==
    {"--- File: ", " (line ", " to line ", ", locate: '", "') ---",
     " (error: file missing or invalid) ---", " (error: cannot find item '",
     " (error: read failed) ---", "--- call path ---", " -> ", "path not found",
     "--- Impl match: ", " (", ") ---"}

NonWord ==
    {" ", "\n", "{", "}", ";", "@", "*", "/", ".", "(", ")", "<", ">", ",", "=", "'",
     ":", "[", "]", "?", "-", "#"}
        \cup HeaderLiterals

IsWord(t) == t \notin NonWord
IsWhite(t) == t = " " \/ t = "\n"

\* A text (sequence of lines) as one token sequence, lines joined by "\n".
RECURSIVE JoinLines(_)
JoinLines(text) ==
    IF text = <<>> THEN <<>>
    ELSE IF Len(text) = 1 THEN text[1]
    ELSE text[1] \o <<"\n">> \o JoinLines(Tail(text))

\* The first index at or after i whose token is not white space (Len + 1 when
\* there is none).
RECURSIVE SkipWhite(_, _)
SkipWhite(toks, i) ==
    IF i > Len(toks) THEN i
    ELSE IF IsWhite(toks[i]) THEN SkipWhite(toks, i + 1) ELSE i

\* The last index of the run of tokens in S that starts at i (i - 1 when
\* toks[i] is not in S).
RECURSIVE RunEnd(_, _, _)
RunEnd(toks, i, S) ==
    IF i > Len(toks) THEN i - 1
    ELSE IF toks[i] \in S THEN RunEnd(toks, i + 1, S) ELSE i - 1

WordRunEnd(toks, i) ==
    RunEnd(toks, i, {toks[k] : k \in {n \in 1..Len(toks) : IsWord(toks[n])}})

\* The elements of a set of integers in increasing order.
RECURSIVE Ascending(_)
Ascending(S) ==
    IF S = {} THEN <<>> ELSE <<MinOf(S)>> \o Ascending(S \ {MinOf(S)})

\* A sequence without its repeated elements, first occurrences kept.
Distinct(sq) ==
    LET keep == {k \in 1..Len(sq) : \A j \in 1..(k - 1) : sq[j] # sq[k]} IN
        [n \in 1..Cardinality(keep) |-> sq[Ascending(keep)[n]]]

\* The elements of sq that pass Test, in order.
Filter(sq, Test(_)) ==
    LET kept == Ascending({k \in 1..Len(sq) : Test(sq[k])}) IN
        [n \in 1..Len(kept) |-> sq[kept[n]]]

\* String.prototype.replace(pat, rep) with a string pattern: the first
\* occurrence only.
ReplaceFirst(str, pat, rep) ==
    LET at == {i \in 1..(Len(str) - Len(pat) + 1) :
                 SubSeq(str, i, i + Len(pat) - 1) = pat}
    IN  IF at = {} THEN str
        ELSE SubSeq(str, 1, MinOf(at) - 1) \o rep
               \o SubSeq(str, MinOf(at) + Len(pat), Len(str))

\* The segments of a path (its names between separators), in order.
RECURSIVE Segments(_)
Segments(p) ==
    IF p = <<>> THEN <<>>
    ELSE LET cut == {k \in 1..Len(p) : p[k] = "/"} IN
           IF cut = {} THEN <<p>>
           ELSE IF MinOf(cut) = 1 THEN Segments(Tail(p))
           ELSE <<SubSeq(p, 1, MinOf(cut) - 1)>>
                  \o Segments(SubSeq(p, MinOf(cut) + 1, Len(p)))

---------------------------------------------------------------------------
(* Code Item Locator: extractSnippet and the implementation lookup.        *)

DEFAULT_IGNORE_DIRS ==
    {<<".", "git">>, <<".", "idea">>, <<".", "vscode">>, <<"node_modules">>,
     <<"dist">>, <<"build">>, <<"out">>, <<"target">>, <<".", "gradle">>,
     <<".", "mvn">>, <<"logs">>, <<"log">>, <<"tmp">>, <<"temp">>}

JavaExt == <<".", "java">>

MissingMarker(filePath) ==
    <<<<"--- File: ">> \o filePath \o <<" (error: file missing or invalid) ---">>>>

ItemNotFoundMarker(filePath, name) ==
    <<<<"--- File: ">> \o filePath \o <<" (error: cannot find item '">> \o name
        \o <<"') ---">>>>

ReadFailedMarker(filePath) ==
    <<<<"--- File: ">> \o filePath \o <<" (error: read failed) ---">>>>

\* lines.findIndex(line => line.includes(itemName))
ItemIndex(ls, name) ==
    LET hits == {i \in 0..(Len(ls) - 1) : includes(At(ls, i), name)} IN
        IF hits = {} THEN -1 ELSE MinOf(hits)

extractSnippet(fs, workdir, filePath, name) ==
    IF ~pathExists(fs, workdir, filePath) \/ ~isFile(fs, workdir, filePath)
    THEN [found |-> FALSE, text |-> MissingMarker(filePath)]
    ELSE IF ~Readable(fs, workdir, filePath)
    THEN [found |-> FALSE, text |-> ReadFailedMarker(filePath)]
    ELSE LET ls == LinesOf(fs, workdir, filePath) IN
           IF ItemIndex(ls, name) = -1
           THEN [found |-> FALSE, text |-> ItemNotFoundMarker(filePath, name)]
           ELSE SnippetAt(ls, ItemIndex(ls, name), filePath, name)

ServiceJava == <<"Service", ".", "java">>
ServiceImplJava == <<"Service", "Impl", ".", "java">>
ServiceDirToken == <<"/", "service", "/">>
ImplDirToken == <<"/", "service", "/", "impl", "/">>

\* buildImplFilePath; NoPath is its null.
buildImplFilePath(filePath) ==
    IF ~endsWith(filePath, JavaExt) THEN NoPath
    ELSE IF ~endsWith(basename(filePath), ServiceJava) THEN NoPath
    ELSE LET fileName == basename(filePath)
             implFileName == ReplaceFirst(fileName, ServiceJava, ServiceImplJava)
         IN  IF includes(filePath, ImplDirToken)
             THEN join(dirname(filePath), implFileName)
             ELSE IF includes(filePath, ServiceDirToken)
             THEN ReplaceFirst(ReplaceFirst(filePath, ServiceDirToken, ImplDirToken),
                               fileName, implFileName)
             ELSE join(dirname(filePath), implFileName)

\* buildImplClassName; <<>> is its null.
buildImplClassName(filePath) ==
    IF ~endsWith(filePath, JavaExt) THEN <<>>
    ELSE LET baseName == SubSeq(basename(filePath), 1, Len(basename(filePath)) - 2) IN
           IF endsWith(baseName, <<"Impl">>) THEN baseName
           ELSE baseName \o <<"Impl">>

\* new RegExp("\\b(kinds)\\s+name\\b").test(content)
Declares(ls, kinds, name) ==
    LET toks == JoinLines(ls) IN
        \E i \in 1..Len(toks) :
            /\ toks[i] \in kinds
            /\ (i = 1 \/ ~IsWord(toks[i - 1]))
            /\ SkipWhite(toks, i + 1) > i + 1
            /\ LET n == SkipWhite(toks, i + 1) IN
                 /\ n + Len(name) - 1 <= Len(toks)
                 /\ SubSeq(toks, n, n + Len(name) - 1) = name
                 /\ (n + Len(name) > Len(toks) \/ ~IsWord(toks[n + Len(name)]))

\* The walk from rootDir reaches file f: f lies under rootDir and no directory
\* on the way down has an ignored name.
WalkReaches(rootDir, f) ==
    /\ rootDir # <<"/">> => startsWith(f, rootDir \o <<"/">>)
    /\ LET below == Segments(SubSeq(f, Len(rootDir) + 1, Len(f))) IN
         \A k \in 1..(Len(below) - 1) : below[k] \notin DEFAULT_IGNORE_DIRS

\* The files a project-wide search from rootDir returns for a class name, in
\* the order the directory walk meets them (fs.walk lists the files in that
\* order).
ClassSearch(fs, workdir, rootDir, className, kinds) ==
    LET Hit(f) == /\ WalkReaches(Absolute(workdir, rootDir), f)
                  /\ basename(f) = className \o JavaExt
                  /\ fs.files[f].readable
                  /\ Declares(fs.files[f].lines, kinds, className)
    IN  Filter(fs.walk, Hit)

findClassFiles(fs, workdir, rootDir, className) ==
    ClassSearch(fs, workdir, rootDir, className, {"class", "interface", "enum"})

findImplFiles(fs, workdir, rootDir, implClassName) ==
    ClassSearch(fs, workdir, rootDir, implClassName, {"class"})

---------------------------------------------------------------------------
(* Code Item Locator: the field -> type -> path trace.                     *)

WordsOf(toks) == {toks[k] : k \in {n \in 1..Len(toks) : IsWord(toks[n])}}

\* The tail of the field regex from index i: type, white space, name, optional
\* white space, ";".  <<>> when it does not match.
FieldTail(line, i) ==
    IF i > Len(line) \/ ~IsWord(line[i]) THEN <<>>
    ELSE LET typeEnd == RunEnd(line, i, WordsOf(line) \cup {"<", ">"})
             nameAt == SkipWhite(line, typeEnd + 1)
         IN  IF nameAt = typeEnd + 1 \/ nameAt > Len(line) \/ ~IsWord(line[nameAt])
             THEN <<>>
             ELSE LET nameEnd == WordRunEnd(line, nameAt)
                      semi == SkipWhite(line, nameEnd + 1)
                  IN  IF semi <= Len(line) /\ line[semi] = ";"
                      THEN <<[rawType |-> SubSeq(line, i, typeEnd),
                              fieldName |-> SubSeq(line, nameAt, nameEnd)]>>
                      ELSE <<>>

\* line.match(fieldRegex): ^\s*(private|protected|public)\s+(final\s+)?
\* ([A-Za-z_][\w<>]*)\s+([A-Za-z_][\w]*)\s*;
FieldMatch(line) ==
    LET mod == SkipWhite(line, 1)
        next == SkipWhite(line, mod + 1)
    IN  IF mod > Len(line) \/ line[mod] \notin {"private", "protected", "public"}
           \/ next = mod + 1 \/ next > Len(line)
        THEN <<>>
        ELSE LET afterFinal == SkipWhite(line, next + 1)
                 withFinal == IF line[next] = "final" /\ afterFinal > next + 1
                              THEN FieldTail(line, afterFinal) ELSE <<>>
             IN  IF withFinal # <<>> THEN withFinal ELSE FieldTail(line, next)

\* rawType.replace(/<.*>/g, ""): from the first "<" to the last ">".
CleanType(rawType) ==
    LET lt == {k \in 1..Len(rawType) : rawType[k] = "<"}
        gt == {k \in 1..Len(rawType) : rawType[k] = ">"}
    IN  IF lt = {} \/ gt = {} THEN rawType
        ELSE LET from == MinOf(lt)
                 to == CHOOSE k \in gt : \A j \in gt : j <= k
             IN  IF to < from THEN rawType
                 ELSE SubSeq(rawType, 1, from - 1) \o SubSeq(rawType, to + 1, Len(rawType))

\* extractFieldTypeMap(lines).get(fieldName): the type of the last line that
\* declares the field, <<>> for undefined.
FieldTypeOf(ls, fieldName) ==
    LET decls == {k \in 1..Len(ls) :
                    FieldMatch(ls[k]) # <<>> /\ FieldMatch(ls[k])[1].fieldName = fieldName}
    IN  IF decls = {} THEN <<>>
        ELSE CleanType(FieldMatch(ls[CHOOSE k \in decls : \A j \in decls : j <= k])[1].rawType)

RECURSIVE WordRunStart(_, _)
WordRunStart(toks, j) ==
    IF j > 1 /\ IsWord(toks[j - 1]) THEN WordRunStart(toks, j - 1) ELSE j

\* extractCalledFields(snippet): the identifiers followed by optional white
\* space and a ".", in order of first occurrence.
extractCalledFields(text) ==
    LET toks == JoinLines(text)
        ends == {j \in 1..Len(toks) :
                   /\ IsWord(toks[j])
                   /\ (j = Len(toks) \/ ~IsWord(toks[j + 1]))
                   /\ SkipWhite(toks, j + 1) <= Len(toks)
                   /\ toks[SkipWhite(toks, j + 1)] = "."}
        ordered == Ascending(ends)
    IN  Distinct([n \in 1..Len(ordered) |->
                    SubSeq(toks, WordRunStart(toks, ordered[n]), ordered[n])])

RECURSIVE Concat(_)
Concat(sqs) == IF sqs = <<>> THEN <<>> ELSE Head(sqs) \o Concat(Tail(sqs))

\* The callEntries of a called field of a known type, given the class files
\* found for the type.
CallLines(fieldName, typeName, classFiles) ==
    IF classFiles = <<>>
    THEN <<fieldName \o <<" -> ">> \o typeName \o <<" -> ", "path not found">>>>
    ELSE [n \in 1..Len(classFiles) |->
            fieldName \o <<" -> ">> \o typeName \o <<" -> ">> \o classFiles[n]]

\* The callEntries of a called field whose fieldTypeMap entry is typeName
\* (<<>> for none).
CallEntriesOfType(fs, workdir, fieldName, typeName) ==
    IF typeName = <<>> THEN <<>>
    ELSE CallLines(fieldName, typeName, findClassFiles(fs, workdir, workdir, typeName))

\* The callEntries one called field adds.
CallEntries(fs, workdir, ls, fieldName) ==
    CallEntriesOfType(fs, workdir, fieldName, FieldTypeOf(ls, fieldName))

\* The section text of the collected entries, <<>> (null) for none.
CallSection(callEntries) ==
    IF callEntries = <<>> THEN [threw |-> FALSE, section |-> <<>>]
    ELSE [threw |-> FALSE, section |-> <<<<"--- call path ---">>>> \o callEntries]

\* The entries of all the called fields, in order.
CallEntriesOfFields(fs, workdir, ls, calledFields) ==
    Concat([n \in 1..Len(calledFields) |-> CallEntries(fs, workdir, ls, calledFields[n])])

\* buildCallPathSection: threw is TRUE when its readFileSync throws; section
\* is the text it returns, <<>> for null.  The search root is process.cwd().
buildCallPathSection(fs, workdir, filePath, snippetText) ==
    IF ~endsWith(filePath, JavaExt)
    THEN [threw |-> FALSE, section |-> <<>>]
    ELSE IF ~pathExists(fs, workdir, filePath) \/ ~isFile(fs, workdir, filePath)
    THEN [threw |-> FALSE, section |-> <<>>]
    ELSE IF ~Readable(fs, workdir, filePath)
    THEN [threw |-> TRUE, section |-> <<>>]
    ELSE CallSection(CallEntriesOfFields(fs, workdir, LinesOf(fs, workdir, filePath),
                                         extractCalledFields(snippetText)))

---------------------------------------------------------------------------
(* Code Item Locator: the task of one query (the callback of Items.map).   *)

\* A call-path section as the list of result snippets it adds.
SectionBlocks(call) == IF call.section = <<>> THEN <<>> ELSE <<call.section>>

\* The candidates kept in a list instead of a set: a file reached twice is
\* visited twice (a faulty variant of ImplList).
ImplListOfArray(fs, workdir, File) ==
    LET implFilePath == buildImplFilePath(File)
        implClassName == buildImplClassName(File)
        derived == IF implFilePath # NoPath /\ implFilePath # File
                   THEN <<implFilePath>> ELSE <<>>
        searched == IF implClassName # <<>>
                    THEN findImplFiles(fs, workdir, workdir, implClassName) ELSE <<>>
        NotQueried(f) == f # File
    IN  Filter(derived \o searched, NotQueried)

\* The candidates the implementation traversal visits: Array.from of the set
\* (insertion order) without the queried file.
ImplList(fs, workdir, File) ==
    LET implFilePath == buildImplFilePath(File)
        implClassName == buildImplClassName(File)
        derived == IF implFilePath # NoPath /\ implFilePath # File
                   THEN <<implFilePath>> ELSE <<>>
        searched == IF implClassName # <<>>
                    THEN findImplFiles(fs, workdir, workdir, implClassName) ELSE <<>>
        NotQueried(f) == f # File
    IN  Filter(Distinct(derived \o searched), NotQueried)

ImplHeader(implClassName, implIndex, total) ==
    <<"--- Impl match: ">> \o implClassName
        \o <<" (", ToString(implIndex), "/", ToString(total), ") ---">>

\* What one iteration of the loop over implList pushes for a candidate whose
\* snippet was found, given the snippet and its call-path section.
ImplPushed(header, implSnippet, implCallSection) ==
    [threw |-> implCallSection.threw,
     blocks |-> <<<<header>> \o implSnippet.text>> \o SectionBlocks(implCallSection)]

ImplIteration(fs, workdir, header, filePath, implSnippet) ==
    ImplPushed(header, implSnippet,
               buildCallPathSection(fs, workdir, filePath, implSnippet.text))

\* The iterations of the candidates whose snippet is found, in order: the
\* n-th of them carries implIndex n.
ImplIterations(fs, workdir, implClassName, ItemName, total, emitted) ==
    [n \in 1..Len(emitted) |->
       ImplIteration(fs, workdir, ImplHeader(implClassName, n, total), emitted[n],
                     extractSnippet(fs, workdir, emitted[n], ItemName))]

\* All iterations together: the pushed blocks, and whether one of them threw.
ImplMerged(parts) ==
    [threw |-> \E n \in 1..Len(parts) : parts[n].threw,
     blocks |-> Concat([n \in 1..Len(parts) |-> parts[n].blocks])]

ImplBlocksOf(fs, workdir, File, ItemName, implList) ==
    LET Found(f) == extractSnippet(fs, workdir, f, ItemName).found IN
        ImplMerged(ImplIterations(fs, workdir, buildImplClassName(File), ItemName,
                                  Len(implList), Filter(implList, Found)))

\* The result snippets of the implementation traversal, and whether a call
\* inside it threw.
ImplBlocks(fs, workdir, File, ItemName) ==
    ImplBlocksOf(fs, workdir, File, ItemName, ImplList(fs, workdir, File))

\* The promise of the callback: rejected when a call threw, fulfilled with
\* resultSnippets (the blocks that join("\n\n") makes the query's text block)
\* otherwise.
ItemSettled(mainSnippet, mainCall, impl) ==
    IF mainCall.threw \/ impl.threw
    THEN [threw |-> TRUE, hangs |-> FALSE, value |-> <<>>]
    ELSE [threw |-> FALSE, hangs |-> FALSE,
          value |-> <<mainSnippet.text>> \o SectionBlocks(mainCall) \o impl.blocks]

ItemAfterMain(fs, workdir, item, mainSnippet) ==
    ItemSettled(mainSnippet,
                buildCallPathSection(fs, workdir, item.File, mainSnippet.text),
                ImplBlocks(fs, workdir, item.File, item.ItemName))

\* The callback of Items.map for one item.
ItemOutcome(fs, workdir, item) ==
    ItemAfterMain(fs, workdir, item,
                  extractSnippet(fs, workdir, item.File, item.ItemName))

---------------------------------------------------------------------------
(* Structural Outline (view_files_outlines): parseOutline.                 *)

\* path.extname(p).slice(1).toLowerCase() for the extensions of this model,
\* all lower case; <<>> when the base name has no dot after its first
\* character.
getExtension(p) ==
    LET base == basename(p)
        dots == {k \in 2..Len(base) : base[k] = "."}
    IN  IF dots = {} THEN <<>>
        ELSE SubSeq(base, (CHOOSE k \in dots : \A j \in dots : j <= k) + 1, Len(base))

ClassModifiers == {"public", "private", "protected", "static", "final"}
MethodModifiers == ClassModifiers \cup {"synchronized", "async"}

\* [\w<>[\]]
IsTypeTok(t) == IsWord(t) \/ t \in {"<", ">", "[", "]"}

TypeToks(line) == {line[k] : k \in {n \in 1..Len(line) : IsTypeTok(line[n])}}

\* keyword\s+([a-zA-Z0-9_$]+), unanchored: the name after the first
\* occurrence of the keyword that white space and a name follow.
KeywordName(line, keyword) ==
    LET at == {i \in 1..Len(line) :
                 /\ line[i] = keyword
                 /\ SkipWhite(line, i + 1) > i + 1
                 /\ SkipWhite(line, i + 1) <= Len(line)
                 /\ IsWord(line[SkipWhite(line, i + 1)])}
    IN  IF at = {} THEN <<>>
        ELSE LET n == SkipWhite(line, MinOf(at) + 1) IN
               <<SubSeq(line, n, WordRunEnd(line, n))>>

\* The Java method pattern: (modifier|\s)+ type \s+ name \s* ( [^)]* ).
\* The positions where a captured name can start.
MethodNameStarts(line) ==
    {n \in 2..Len(line) :
       /\ IsWord(line[n]) /\ IsWhite(line[n - 1])
       /\ \E a \in 2..(n - 2) : \E b \in a..(n - 2) :
            /\ \A k \in a..b : IsTypeTok(line[k])
            /\ \A k \in (b + 1)..(n - 1) : IsWhite(line[k])
            /\ (IsWhite(line[a - 1]) \/ line[a - 1] \in MethodModifiers)
       /\ LET open == SkipWhite(line, WordRunEnd(line, n) + 1) IN
            /\ open <= Len(line) /\ line[open] = "("
            /\ \E k \in (open + 1)..Len(line) : line[k] = ")"}

MethodName(line) ==
    IF MethodNameStarts(line) = {} THEN <<>>
    ELSE LET n == MinOf(MethodNameStarts(line)) IN
           <<SubSeq(line, n, WordRunEnd(line, n))>>

\* The rest of the Java field pattern from the type at index t:
\* type \s+ name \s* (= \s* [^;]+)? \s* ;
FieldRest(line, t) ==
    IF t > Len(line) \/ ~IsTypeTok(line[t]) THEN <<>>
    ELSE LET typeEnd == RunEnd(line, t, TypeToks(line))
             nameAt == SkipWhite(line, typeEnd + 1)
         IN  IF nameAt = typeEnd + 1 \/ nameAt > Len(line) \/ ~IsWord(line[nameAt])
             THEN <<>>
             ELSE LET nameEnd == WordRunEnd(line, nameAt)
                      after == SkipWhite(line, nameEnd + 1)
                      semis == {k \in 1..Len(line) : k > after /\ line[k] = ";"}
                  IN  IF after <= Len(line) /\ line[after] = ";"
                      THEN <<SubSeq(line, nameAt, nameEnd)>>
                      ELSE IF after <= Len(line) /\ line[after] = "="
                              /\ semis # {} /\ MinOf(semis) > after + 1
                      THEN <<SubSeq(line, nameAt, nameEnd)>>
                      ELSE <<>>

\* The Java field pattern, anchored: ^\s*(modifier)*\s+ and FieldRest.  The
\* modifiers are adjacent; white space must precede the type.
FieldName(line) ==
    LET first == SkipWhite(line, 1)
        modsEnd == RunEnd(line, first, ClassModifiers)
        TypeAt(e) == IF e = first - 1 THEN first ELSE SkipWhite(line, e + 1)
        Works(e) == /\ (e = first - 1 => first > 1)
                    /\ (e >= first => TypeAt(e) > e + 1)
                    /\ FieldRest(line, TypeAt(e)) # <<>>
        ends == {e \in (first - 1)..modsEnd : Works(e)}
    IN  IF ends = {} THEN <<>>
        ELSE FieldRest(line, TypeAt(CHOOSE e \in ends : \A x \in ends : x <= e))

\* ^class\s+name (Python)
PyClassName(line) ==
    IF Len(line) >= 3 /\ line[1] = "class" /\ IsWhite(line[2])
       /\ SkipWhite(line, 2) <= Len(line) /\ IsWord(line[SkipWhite(line, 2)])
    THEN <<SubSeq(line, SkipWhite(line, 2), WordRunEnd(line, SkipWhite(line, 2)))>>
    ELSE <<>>

\* ^\s*def\s+name (Python)
PyDefName(line) ==
    LET d == SkipWhite(line, 1)
        n == SkipWhite(line, d + 1)
    IN  IF d <= Len(line) /\ line[d] = "def" /\ n > d + 1 /\ n <= Len(line)
           /\ IsWord(line[n])
        THEN <<SubSeq(line, n, WordRunEnd(line, n))>>
        ELSE <<>>

\* getPatternsForExtension: the catalog of an extension, in order, for the
\* languages of the files of this model; every other extension falls to the
\* default branch unless it is ts, tsx, js, jsx or go.
getPatternsForExtension(ext) ==
    IF ext = <<"java">> THEN <<"java class", "java interface", "java method", "java field">>
    ELSE IF ext = <<"py">> THEN <<"py class", "py def">>
    ELSE <<>>

\* The type an item of the pattern gets.
PatternType(pattern) ==
    CASE pattern = "java class" -> "class"
      [] pattern = "java interface" -> "interface"
      [] pattern = "java method" -> "method"
      [] pattern = "java field" -> "field"
      [] pattern = "py class" -> "class"
      [] pattern = "py def" -> "function"

\* line.match(pattern.regex): <<name>> for a match, <<>> for null.
PatternName(pattern, line) ==
    CASE pattern = "java class" -> KeywordName(line, "class")
      [] pattern = "java interface" -> KeywordName(line, "interface")
      [] pattern = "java method" -> MethodName(line)
      [] pattern = "java field" -> FieldName(line)
      [] pattern = "py class" -> PyClassName(line)
      [] pattern = "py def" -> PyDefName(line)

\* The last pattern of the catalog that matches the line (a faulty variant
\* of FirstPattern).
LastPattern(patterns, line) ==
    LET hits == {k \in 1..Len(patterns) : PatternName(patterns[k], line) # <<>>} IN
        IF hits = {} THEN 0 ELSE CHOOSE k \in hits : \A j \in hits : j <= k

\* The first pattern of the catalog that matches the line (0 when none does).
FirstPattern(patterns, line) ==
    LET hits == {k \in 1..Len(patterns) : PatternName(patterns[k], line) # <<>>} IN
        IF hits = {} THEN 0 ELSE MinOf(hits)

\* The walk when it stops at a blank line (a faulty variant of
\* OutlineWalksOver).
OutlineWalksOverNoBlank(line) ==
    \/ startsWith(trim(line), <<"@">>)
    \/ startsWith(trim(line), <<"*">>)
    \/ startsWith(trim(line), <<"/", "/">>)

\* The upward walk of the Java branch skips this line (an annotation, a blank
\* line or a comment continuation) and goes on.
OutlineWalksOver(line) ==
    \/ startsWith(trim(line), <<"@">>)
    \/ trim(line) = <<>>
    \/ startsWith(trim(line), <<"*">>)
    \/ startsWith(trim(line), <<"/", "/">>)

\* The 0-based indices of the annotation lines the walk from index collects,
\* top-down.
AnnotationLines(ls, index) ==
    Ascending({j \in 0..(index - 1) :
                 /\ \A k \in j..(index - 1) : OutlineWalksOver(At(ls, k))
                 /\ startsWith(trim(At(ls, j)), <<"@">>)})

\* annotations.join(" ") + " " + signature
RECURSIVE JoinSpaced(_)
JoinSpaced(parts) ==
    IF parts = <<>> THEN <<>>
    ELSE IF Len(parts) = 1 THEN parts[1]
    ELSE parts[1] \o <<" ">> \o JoinSpaced(Tail(parts))

OutlineSignature(ls, index, ext) ==
    LET ann == IF ext = <<"java">> THEN AnnotationLines(ls, index) ELSE <<>> IN
        JoinSpaced([n \in 1..Len(ann) |-> trim(At(ls, ann[n]))]
                     \o <<trim(At(ls, index))>>)

CountOf(line, ch) == Cardinality({k \in 1..Len(line) : line[k] = ch})

\* braceCount after the lines index..k have been counted.
BraceCount(ls, index, k) ==
    LET Sum[i \in (index - 1)..k] ==
          IF i < index THEN 0
          ELSE Sum[i - 1] + CountOf(At(ls, i), "{") - CountOf(At(ls, i), "}")
    IN  Sum[k]

\* The scan when it ends on the first line that brings the depth to zero or
\* below, an opening brace seen or not (a faulty variant of OutlineEndLine).
OutlineEndLineUnopened(ls, index) ==
    LET closes == {k \in index..(Len(ls) - 1) : BraceCount(ls, index, k) <= 0}
    IN  IF closes = {} THEN Len(ls) ELSE MinOf(closes) + 1

\* The endLine (1-based) the forward brace scan from index leaves.
OutlineEndLine(ls, index) ==
    LET closes == {k \in index..(Len(ls) - 1) :
                     /\ \E i \in index..k : CountOf(At(ls, i), "{") > 0
                     /\ BraceCount(ls, index, k) <= 0}
    IN  IF closes = {} THEN Len(ls) ELSE MinOf(closes) + 1

\* The item when the brace scan runs for a field too (a faulty variant of
\* OutlineItemOf).
OutlineItemOfAlwaysScanned(ls, index, ext, pattern) ==
    [name |-> PatternName(pattern, At(ls, index))[1],
     type |-> PatternType(pattern),
     startLine |-> index + 1,
     endLine |-> OutlineEndLine(ls, index),
     signature |-> OutlineSignature(ls, index, ext)]

\* The item pushed for the line at index, matched by pattern.
OutlineItemOf(ls, index, ext, pattern) ==
    [name |-> PatternName(pattern, At(ls, index))[1],
     type |-> PatternType(pattern),
     startLine |-> index + 1,
     endLine |-> IF PatternType(pattern) # "field"
                 THEN OutlineEndLine(ls, index) ELSE index + 1,
     signature |-> OutlineSignature(ls, index, ext)]

OutlineItem(ls, index, ext) ==
    OutlineItemOf(ls, index, ext,
                  getPatternsForExtension(ext)[
                      FirstPattern(getPatternsForExtension(ext), At(ls, index))])

\* The items of the matched lines, in line order.
OutlineItems(ls, ext, matched) ==
    [n \in 1..Len(matched) |-> OutlineItem(ls, matched[n], ext)]

parseOutline(ls, ext) ==
    OutlineItems(ls, ext,
                 Ascending({i \in 0..(Len(ls) - 1) :
                              FirstPattern(getPatternsForExtension(ext), At(ls, i)) # 0}))

\* The result object of a file that was read and parsed.
OutlineResult(AbsolutePath, ext, outline) ==
    [path |-> AbsolutePath, ok |-> TRUE, error |-> "",
     language |-> ext, totalItems |-> Len(outline), outline |-> outline]

\* The callback of AbsolutePaths.map in the outline handler: the result
\* object of one path.  ok is FALSE for {path, error}.
OutlineOutcome(fs, workdir, AbsolutePath) ==
    IF ~pathExists(fs, workdir, AbsolutePath) \/ ~isFile(fs, workdir, AbsolutePath)
    THEN [path |-> AbsolutePath, ok |-> FALSE, error |-> "missing or invalid",
          language |-> <<>>, totalItems |-> 0, outline |-> <<>>]
    ELSE IF ~Readable(fs, workdir, AbsolutePath)
    THEN [path |-> AbsolutePath, ok |-> FALSE, error |-> "outline failed",
          language |-> <<>>, totalItems |-> 0, outline |-> <<>>]
    ELSE OutlineResult(AbsolutePath, getExtension(AbsolutePath),
                       parseOutline(LinesOf(fs, workdir, AbsolutePath),
                                    getExtension(AbsolutePath)))

---------------------------------------------------------------------------
(* Full Context Reader (view_files_full_context): the task of one path.    *)

\* toLowerCase of the capitalised words of this model.
ToLower(t) ==
    CASE t = "User" -> "user"
      [] t = "Service" -> "service"
      [] t = "Impl" -> "impl"
      [] t = "Mapper" -> "mapper"
      [] t = "Tool" -> "tool"
      [] t = "DTO" -> "dto"
      [] t = "Dao" -> "dao"
      [] t = "Helper" -> "helper"
      [] t = "VO" -> "vo"
      [] t = "A" -> "a"
      [] OTHER -> t

\* lp.includes(keyword), for paths whose words are the keywords themselves
\* or contain none of them.
Mentions(p, keyword) == \E k \in 1..Len(p) : ToLower(p[k]) = keyword

roleWeight(p) ==
    IF Mentions(p, "controller") \/ Mentions(p, "api") THEN 1
    ELSE IF Mentions(p, "service") /\ ~Mentions(p, "impl") THEN 2
    ELSE IF Mentions(p, "impl") THEN 3
    ELSE IF Mentions(p, "mq") \/ Mentions(p, "listener") \/ Mentions(p, "consumer")
            \/ Mentions(p, "producer") THEN 4
    ELSE IF Mentions(p, "mapper") \/ Mentions(p, "repository") \/ Mentions(p, "dao") THEN 5
    ELSE IF Mentions(p, "dto") \/ Mentions(p, "vo") \/ Mentions(p, "entity")
            \/ Mentions(p, "model") THEN 6
    ELSE 10

\* The paths left in input order (a faulty variant of SortByRole).
SortByRoleInputOrder(paths) == paths

\* [...paths].sort((a, b) => roleWeight(a) - roleWeight(b)); the sort is stable.
SortByRole(paths) ==
    LET Rank(i) == Cardinality({j \in 1..Len(paths) :
                      \/ roleWeight(paths[j]) < roleWeight(paths[i])
                      \/ roleWeight(paths[j]) = roleWeight(paths[i]) /\ j < i}) + 1
    IN  [r \in 1..Len(paths) |-> paths[CHOOSE i \in 1..Len(paths) : Rank(i) = r]]

\* The names of the child directories of root that hold a src entry, in
\* listing order (fs.dirList lists the directories in that order).
ModulesAt(fs, workdir, root) ==
    LET IsModule(d) == /\ d \in ChildDirs(fs, workdir, root)
                       /\ Exists(fs, workdir, join(d, SrcName))
        found == Filter(fs.dirList, IsModule)
    IN  [n \in 1..Len(found) |-> basename(found[n])]

\* findSimiliarFileGeneric for a path whose root walk returns.
findSimiliarFileGeneric(fs, workdir, attemptedPath) ==
    LET root == findProjectRoot(fs, workdir, attemptedPath) IN
        IF root = NoPath THEN <<"Suggestion: Check the file path accuracy.">>
        ELSE <<"Suggestion: modules found at root: ">>
               \o ModulesAt(fs, workdir, root)

---------------------------------------------------------------------------
(* Dependency Resolver: the package and import declarations of a Java file *)
(* and the resolution of an import to a file under the project root.       *)

\* A token sequence without its trailing white space.
RECURSIVE TrimEnd(_)
TrimEnd(toks) ==
    IF toks # <<>> /\ IsWhite(toks[Len(toks)])
    THEN TrimEnd(SubSeq(toks, 1, Len(toks) - 1)) ELSE toks

\* keyword\s+([^;]+) on a text, the capture trimmed: the tokens after the
\* first occurrence of the keyword that white space follows, up to the next
\* ";" or to the end of the text.  needSemi is TRUE for the patterns that
\* end with ";".  <<>> when there is no match.
CaptureAfter(toks, keyword, needSemi) ==
    LET at == {i \in 1..Len(toks) :
                 /\ toks[i] = keyword
                 /\ SkipWhite(toks, i + 1) > i + 1
                 /\ SkipWhite(toks, i + 1) <= Len(toks)
                 /\ toks[SkipWhite(toks, i + 1)] # ";"
                 /\ needSemi => \E k \in (i + 1)..Len(toks) : toks[k] = ";"}
    IN  IF at = {} THEN <<>>
        ELSE LET from == SkipWhite(toks, MinOf(at) + 1)
                 semis == {k \in from..Len(toks) : toks[k] = ";"}
             IN  TrimEnd(SubSeq(toks, from,
                                IF semis = {} THEN Len(toks) ELSE MinOf(semis) - 1))

\* fullContent.match(/package\s+([^;]+)/), the capture trimmed.
PackageOf(ls) == CaptureAfter(JoinLines(ls), "package", FALSE)

\* The first two segments of a dotted name, joined by ".".
ProjectPrefix(fullPackage) ==
    LET dots == {k \in 1..Len(fullPackage) : fullPackage[k] = "."} IN
        IF Cardinality(dots) < 2 THEN fullPackage
        ELSE SubSeq(fullPackage, 1, MinOf(dots \ {MinOf(dots)}) - 1)

\* The import statements of the file as class names (the statement without
\* "import" and ";", trimmed), one statement per line, in file order.
ImportsOf(ls) ==
    LET Declares1(line) == CaptureAfter(line, "import", TRUE) # <<>>
        found == Filter(ls, Declares1)
    IN  [n \in 1..Len(found) |-> CaptureAfter(found[n], "import", TRUE)]

\* className.split(".").pop()
SimpleNameOf(className) ==
    LET dots == {k \in 1..Len(className) : className[k] = "."} IN
        IF dots = {} THEN className
        ELSE SubSeq(className, (CHOOSE k \in dots : \A j \in dots : j <= k) + 1,
                    Len(className))

\* `${fullClassName.replace(/\./g, "/")}.java`
ClassFileRel(fullClassName) ==
    [k \in 1..Len(fullClassName) |->
       IF fullClassName[k] = "." THEN "/" ELSE fullClassName[k]] \o <<".", "java">>

\* The child directories of dir in the order readdirSync lists them.
ListedDirs(fs, workdir, dir) ==
    LET IsChild(d) == d # <<"/">> /\ dirname(d) = Absolute(workdir, dir) IN
        Filter(fs.dirList, IsChild)

\* The directory names the two resolver walks do not enter.
ResolverSkips(name) ==
    name = <<"node_modules">> \/ name = <<".", "git">> \/ startsWith(name, <<".">>)

\* findInDir: the loop over the directory's entries from the k-th on.
RECURSIVE findInDir(_, _, _, _, _)
findInDir(fs, workdir, entries, k, rel) ==
    IF k > Len(entries) THEN NoPath
    ELSE IF Exists(fs, workdir, join(entries[k], JavaRootRel))
    THEN IF Exists(fs, workdir, join(join(entries[k], JavaRootRel), rel))
         THEN join(join(entries[k], JavaRootRel), rel)
         ELSE findInDir(fs, workdir, entries, k + 1, rel)
    ELSE IF ~ResolverSkips(basename(entries[k]))
    THEN LET found == findInDir(fs, workdir, ListedDirs(fs, workdir, entries[k]), 1, rel)
         IN  IF found # NoPath THEN found
             ELSE findInDir(fs, workdir, entries, k + 1, rel)
    ELSE findInDir(fs, workdir, entries, k + 1, rel)

\* resolveJavaPathGeneric once the root is known.
ResolveUnder(fs, workdir, root, rel) ==
    IF root = NoPath THEN NoPath
    ELSE IF /\ Exists(fs, workdir, join(root, JavaRootRel))
            /\ Exists(fs, workdir, join(join(root, JavaRootRel), rel))
    THEN join(join(root, JavaRootRel), rel)
    ELSE findInDir(fs, workdir, ListedDirs(fs, workdir, root), 1, rel)

\* resolveJavaPathGeneric for a current path whose root walk returns.
resolveJavaPathGeneric(fs, workdir, currentPath, fullClassName) ==
    ResolveUnder(fs, workdir, findProjectRoot(fs, workdir, currentPath),
                 ClassFileRel(fullClassName))

\* extractPackageName: null (<<>>) when the file cannot be read or declares no
\* package.
extractPackageName(fs, workdir, filePath) ==
    IF ~Readable(fs, workdir, filePath) THEN <<>>
    ELSE CaptureAfter(JoinLines(LinesOf(fs, workdir, filePath)), "package", TRUE)

\* The walk enters every directory above the file, wherever they lie (a
\* faulty variant of FallbackReaches).
FallbackReachesAnywhere(root, f) ==
    \A n \in 1..(Len(Segments(f)) - 1) : ~ResolverSkips(Segments(f)[n])

\* The walk of resolveBySimpleNames enters every directory between root and
\* the file.
FallbackReaches(root, f) ==
    /\ Len(f) > Len(root) + 1
    /\ SubSeq(f, 1, Len(root) + 1) = root \o <<"/">>
    /\ LET inner == Segments(SubSeq(f, Len(root) + 2, Len(f))) IN
         \A n \in 1..(Len(inner) - 1) : ~ResolverSkips(inner[n])

\* The class name of a .java file name, <<>> for another file.
JavaClassOf(name) ==
    IF endsWith(name, <<".", "java">>) THEN SubSeq(name, 1, Len(name) - 2) ELSE <<>>

\* The files the walk from root pushes a result for, but for the seen test:
\* .java files of a wanted name whose package can be read.
FallbackHits(fs, workdir, root, simpleNames) ==
    LET wanted == {simpleNames[n] : n \in 1..Len(simpleNames)}
        Hit(f) == /\ FallbackReaches(root, f)
                  /\ JavaClassOf(basename(f)) \in wanted
                  /\ extractPackageName(fs, workdir, f) # <<>>
    IN  Filter(fs.walk, Hit)

\* The ResolvedImportInfo of a hit.
FallbackInfo(fs, workdir, f) ==
    [className |-> extractPackageName(fs, workdir, f) \o <<".">>
                     \o JavaClassOf(basename(f)),
     resolvedPath |-> f]

\* The results of the walk: the first hit of every qualified name, in walk
\* order (fs.walk is the order the recursive walk meets the files in).
FallbackResults(fs, workdir, hits) ==
    LET infos == [n \in 1..Len(hits) |-> FallbackInfo(fs, workdir, hits[n])]
        keep == {k \in 1..Len(infos) :
                   \A j \in 1..(k - 1) : infos[j].className # infos[k].className}
    IN  [n \in 1..Cardinality(keep) |-> infos[Ascending(keep)[n]]]

\* resolveBySimpleNames once the root is known.
FallbackUnder(fs, workdir, root, simpleNames) ==
    IF root = NoPath \/ simpleNames = <<>> THEN <<>>
    ELSE FallbackResults(fs, workdir, FallbackHits(fs, workdir, root, simpleNames))

\* resolveBySimpleNames for a current path whose root walk returns.
resolveBySimpleNames(fs, workdir, currentPath, simpleNames) ==
    FallbackUnder(fs, workdir, findProjectRoot(fs, workdir, currentPath), simpleNames)

---------------------------------------------------------------------------
(* Dependency Resolver: the import loop of the full-context handler, the   *)
(* simple-name fallback and the model classification.                      *)

\* The locals of the import loop: resolvedImports, and the simple names
\* counted in projectImportCount, one element per increment.
NoImports == [resolved |-> <<>>, counted |-> <<>>]

ClassNamesOf(resolved) == {resolved[n].className : n \in 1..Len(resolved)}

\* projectImportCount.get(simpleName)
CountOfName(counted, name) == Cardinality({k \in 1..Len(counted) : counted[k] = name})

\* The loop body for a class name that passed the three tests: it is pushed
\* when it resolves, and its simple name is counted either way.
ImportKept(fs, workdir, acc, className, resolved) ==
    [resolved |-> IF resolved # NoPath /\ pathExists(fs, workdir, resolved)
                  THEN Append(acc.resolved,
                              [className |-> className, resolvedPath |-> resolved])
                  ELSE acc.resolved,
     counted |-> IF SimpleNameOf(className) # <<>>
                 THEN Append(acc.counted, SimpleNameOf(className))
                 ELSE acc.counted]

\* The import reaches resolveJavaPathGeneric: it has the project prefix, is
\* not from an annotation package and was not resolved before.
ImportEligible(projectPrefix, acc, className) ==
    /\ startsWith(className, projectPrefix \o <<".">>)
    /\ ~includes(className, <<".", "annotation", ".">>)
    /\ className \notin ClassNamesOf(acc.resolved)

\* One iteration of the loop over the imports.
ImportStep(fs, workdir, AbsolutePath, projectPrefix, acc, className) ==
    IF ~ImportEligible(projectPrefix, acc, className) THEN acc
    ELSE ImportKept(fs, workdir, acc, className,
                    resolveJavaPathGeneric(fs, workdir, AbsolutePath, className))

RECURSIVE ImportLoop(_, _, _, _, _, _, _)
ImportLoop(fs, workdir, AbsolutePath, projectPrefix, imports, k, acc) ==
    IF k > Len(imports) THEN acc
    ELSE ImportLoop(fs, workdir, AbsolutePath, projectPrefix, imports, k + 1,
                    ImportStep(fs, workdir, AbsolutePath, projectPrefix, acc,
                               imports[k]))

\* resolvedImports.some(item => item.className.endsWith("." + simpleName))
AlreadyResolved(resolved, simpleName) ==
    \E n \in 1..Len(resolved) : endsWith(resolved[n].className, <<".">> \o simpleName)

\* The candidates with the count test left out (a faulty variant of
\* UnresolvedCandidates).
UnresolvedCandidatesAnyCount(acc) ==
    LET Candidate(name) == ~AlreadyResolved(acc.resolved, name) IN
        Filter(Distinct(acc.counted), Candidate)

\* unresolvedCandidates: the counted simple names, in the order the map holds
\* them, whose count is at most 1 and which no resolved import ends with.
UnresolvedCandidates(acc) ==
    LET Candidate(name) == /\ CountOfName(acc.counted, name) <= 1
                           /\ ~AlreadyResolved(acc.resolved, name)
    IN  Filter(Distinct(acc.counted), Candidate)

\* resolvedImports after the fallback results are pushed (those whose class
\* name is not in seenImport).
WithFallback(resolved, fallbackResolved) ==
    LET Unseen(item) == item.className \notin ClassNamesOf(resolved) IN
        resolved \o Filter(fallbackResolved, Unseen)

\* The sequence with every token in lower case.
LowerCase(toks) == [k \in 1..Len(toks) |-> ToLower(toks[k])]

ModelSuffixes ==
    {"dto", "vo", "entity", "model", "po", "bo", "query", "request", "response", "enum"}

ModelDirNames == ModelSuffixes \cup {"enums"}

\* Only the name suffix decides (a faulty variant of isModelLikeClass).
isModelLikeClassByName(simpleName, resolvedPath) ==
    \E suffix \in ModelSuffixes : endsWith(LowerCase(simpleName), <<suffix>>)

isModelLikeClass(simpleName, resolvedPath) ==
    \/ \E dir \in ModelDirNames : includes(LowerCase(resolvedPath), <<"/", dir, "/">>)
    \/ \E suffix \in ModelSuffixes : endsWith(LowerCase(simpleName), <<suffix>>)

IsModelImport(item) == isModelLikeClass(SimpleNameOf(item.className), item.resolvedPath)

\* modelImports and otherImports
ModelImports(resolved) == Filter(resolved, IsModelImport)

OtherImports(resolved) ==
    LET models == ModelImports(resolved)
        NotModel(item) == \A n \in 1..Len(models) : models[n] # item
    IN  Filter(resolved, NotModel)

---------------------------------------------------------------------------
(* Dependency Resolver: the fields of a model class with their comments.   *)

AccessModifiers == {"public", "protected", "private"}

\* The tokens of the class [\w<>,\s\[\]?] of the type group.
InFieldType(t) == IsWord(t) \/ t \in {"<", ">", ",", " ", "[", "]", "?"}

\* The first index at or after i whose token is outside the type class.
RECURSIVE FieldRunEnd(_, _)
FieldRunEnd(line, i) ==
    IF i > Len(line) THEN i
    ELSE IF InFieldType(line[i]) THEN FieldRunEnd(line, i + 1) ELSE i

\* \s*(?:=.*)?; matches at x: a ";" there, or a "=" with a ";" after it.
FieldTerminated(line, x) ==
    /\ x <= Len(line)
    /\ \/ line[x] = ";"
       \/ line[x] = "=" /\ \E k \in (x + 1)..Len(line) : line[k] = ";"

\* The positions after "keyword\s+" matched at w, white space taken in part
\* or in whole.
AfterKeyword(line, w, keyword) ==
    IF w + 1 <= Len(line) /\ line[w] = keyword /\ line[w + 1] = " "
    THEN (w + 2)..SkipWhite(line, w + 1)
    ELSE {}

\* The position the greedy match of an optional "keyword\s+" at w ends at.
PastKeyword(line, w, keyword) ==
    IF AfterKeyword(line, w, keyword) = {} THEN w ELSE SkipWhite(line, w + 1)

\* The positions the type group may start at: after any part of the optional
\* modifier, "static" and "final" prefix.
TypeStarts(line) ==
    LET w == IF line[1] \in AccessModifiers THEN SkipWhite(line, 2) ELSE 1 IN
        {1} \cup (IF line[1] \in AccessModifiers THEN 2..w ELSE {})
            \cup AfterKeyword(line, w, "static")
            \cup AfterKeyword(line, PastKeyword(line, w, "static"), "final")

\* The field pattern on a trimmed line: <<[name, type]>> for a match, <<>>
\* for none.  nameStart is the start of the identifier before the terminator;
\* the type group starts as late as the prefix allows and ends before the
\* white space in front of the name.
JavaFieldAt(line, nameStart) ==
    LET starts == {t \in TypeStarts(line) : t <= nameStart - 2} IN
        IF nameStart < 3 \/ line[nameStart - 1] # " " THEN <<>>
        ELSE <<[name |-> SubSeq(line, nameStart,
                                LastNonSpace(line, FieldRunEnd(line, 1) - 1)),
                type |-> trim(SubSeq(line,
                                     CHOOSE t \in starts : \A u \in starts : u <= t,
                                     nameStart - 1))]>>

JavaFieldMatch(line) ==
    IF line = <<>> \/ ~FieldTerminated(line, FieldRunEnd(line, 1)) THEN <<>>
    ELSE IF LastNonSpace(line, FieldRunEnd(line, 1) - 1) < 1 THEN <<>>
    ELSE IF ~IsWord(line[LastNonSpace(line, FieldRunEnd(line, 1) - 1)]) THEN <<>>
    ELSE JavaFieldAt(line, WordRunStart(line, LastNonSpace(line, FieldRunEnd(line, 1) - 1)))

BlockOpen == <<"/", "*", "*">>
BlockClose == <<"*", "/">>
LineComment == <<"/", "/">>

\* The index j the inner loop of a block comment stops at: the first line
\* after i that includes "*/", Len + 1 when there is none (1-based).
BlockCommentEnd(ls, i) ==
    LET closing == {j \in (i + 1)..Len(ls) : includes(trim(ls[j]), BlockClose)} IN
        IF closing = {} THEN Len(ls) + 1 ELSE MinOf(closing)

\* The buffer of a block comment that opens on line i and stops at line j.
BlockCommentPart(ls, i, j, k) ==
    IF k = i THEN trim(ReplaceFirst(trim(ls[k]), BlockOpen, <<>>))
    ELSE IF k = j
    THEN trim(ReplaceFirst(ReplaceFirst(trim(ls[k]), BlockClose, <<>>), <<"*">>, <<>>))
    ELSE trim(ReplaceFirst(trim(ls[k]), <<"*">>, <<>>))

NonEmptyPart(part) == part # <<>>

\* buffer.filter(Boolean).join(" ")
BlockCommentText(ls, i, j) ==
    JoinSpaced(Filter([n \in 1..(Min(j, Len(ls)) - i + 1) |->
                          BlockCommentPart(ls, i, j, i + n - 1)],
                      NonEmptyPart))

\* The loop of extractJavaFieldDetails from line i on (1-based), with the
\* pending comment and the results so far.
RECURSIVE FieldScan(_, _, _, _)
FieldScan(ls, i, pendingComment, found) ==
    IF i > Len(ls) THEN found
    ELSE IF startsWith(trim(ls[i]), BlockOpen)
    THEN FieldScan(ls, BlockCommentEnd(ls, i) + 1,
                   BlockCommentText(ls, i, BlockCommentEnd(ls, i)), found)
    ELSE IF startsWith(trim(ls[i]), LineComment)
    THEN FieldScan(ls, i + 1, trim(ReplaceFirst(trim(ls[i]), LineComment, <<>>)), found)
    ELSE IF startsWith(trim(ls[i]), <<"@">>)
    THEN FieldScan(ls, i + 1, pendingComment, found)
    ELSE IF includes(trim(ls[i]), <<"(">>)
    THEN FieldScan(ls, i + 1, <<>>, found)
    ELSE IF JavaFieldMatch(trim(ls[i])) # <<>>
    THEN FieldScan(ls, i + 1, <<>>,
                   Append(found,
                          [name |-> JavaFieldMatch(trim(ls[i]))[1].name,
                           type |-> JavaFieldMatch(trim(ls[i]))[1].type,
                           comment |-> trim(pendingComment)]))
    ELSE FieldScan(ls, i + 1, pendingComment, found)

\* The fields with their comments dropped (a faulty variant of
\* extractJavaFieldDetails).
extractJavaFieldDetailsUncommented(ls) ==
    [n \in 1..Len(FieldScan(ls, 1, <<>>, <<>>)) |->
       [FieldScan(ls, 1, <<>>, <<>>)[n] EXCEPT !.comment = <<>>]]

extractJavaFieldDetails(ls) == FieldScan(ls, 1, <<>>, <<>>)

---------------------------------------------------------------------------
(* Dependency Resolver: the sections the full-context handler adds for a   *)
(* .java file.  Directories can always be listed in this model; files may  *)
(* be closed to the process.                                               *)

LocalImportsShown == 20
ModelFieldsShown == 15
DependencyOutlinesShown == 12

\* sq.slice(0, n)
Take(sq, n) == SubSeq(sq, 1, Min(Len(sq), n))

\* The text printed for a field without a comment.
NoCommentText == <<"no-comment">>

\* The branch that analyses imports is entered: a .java file with a package
\* declaration and at least one import statement.
AnalysesImports(AbsolutePath, ls) ==
    /\ getExtension(AbsolutePath) = <<"java">>
    /\ PackageOf(ls) # <<>>
    /\ ImportsOf(ls) # <<>>

\* The locals after the import loop of the file.
ScannedImports(fs, workdir, AbsolutePath, ls) ==
    ImportLoop(fs, workdir, AbsolutePath, ProjectPrefix(PackageOf(ls)),
               ImportsOf(ls), 1, NoImports)

\* Some import of the file reaches resolveJavaPathGeneric, which then walks
\* up from the file.
SomeImportEligible(ls) ==
    \E n \in 1..Len(ImportsOf(ls)) :
        ImportEligible(ProjectPrefix(PackageOf(ls)), NoImports, ImportsOf(ls)[n])

\* fallbackResolved: the fallback runs when there is a candidate.
FallbackResolved(fs, workdir, AbsolutePath, acc) ==
    IF UnresolvedCandidates(acc) = <<>> THEN <<>>
    ELSE resolveBySimpleNames(fs, workdir, AbsolutePath, UnresolvedCandidates(acc))

\* "  - <simple name> => <resolved path>"
ImportLine(item) ==
    <<" ", " ", "-", " ">> \o SimpleNameOf(item.className) \o <<" ", "=>", " ">>
        \o item.resolvedPath

ImportLines(items) ==
    [n \in 1..Len(Take(items, LocalImportsShown)) |-> ImportLine(items[n])]

\* ">> <simple name> => <resolved path>"
ModelHeadLine(item) ==
    <<">>", " ">> \o SimpleNameOf(item.className) \o <<" ", "=>", " ">>
        \o item.resolvedPath

\* "   - <name> | <type> | <comment>"
FieldLine(field) ==
    <<" ", " ", " ", "-", " ">> \o field.name \o <<" ", "|", " ">> \o field.type
        \o <<" ", "|", " ">>
        \o (IF field.comment # <<>> THEN field.comment ELSE NoCommentText)

FieldLines(fields) ==
    IF fields = <<>> THEN <<<<" ", " ", " ", "-", " ", "(No fields detected)">>>>
    ELSE [n \in 1..Len(fields) |-> FieldLine(fields[n])]

\* The lines MODEL_FIELDS prints for the model imports from the k-th on, all
\* of them readable.
RECURSIVE ModelFieldLines(_, _, _, _)
ModelFieldLines(fs, workdir, models, k) ==
    IF k > Len(models) THEN <<>>
    ELSE <<ModelHeadLine(models[k])>>
           \o FieldLines(extractJavaFieldDetails(
                             LinesOf(fs, workdir, models[k].resolvedPath)))
           \o ModelFieldLines(fs, workdir, models, k + 1)

NotField(item) == item.type # "field"

\* What DEPENDENCY_OUTLINES prints for one readable import: its simple name
\* and the name and line range of every item that is not a field.
DependencyOutline(fs, workdir, item) ==
    [simpleName |-> SimpleNameOf(item.className),
     items |-> LET kept == Filter(parseOutline(LinesOf(fs, workdir, item.resolvedPath),
                                               <<"java">>), NotField)
               IN  [n \in 1..Len(kept) |->
                      [name |-> kept[n].name, startLine |-> kept[n].startLine,
                       endLine |-> kept[n].endLine]]]

DependencyOutlines(fs, workdir, others) ==
    [n \in 1..Len(others) |-> DependencyOutline(fs, workdir, others[n])]

\* fs.readFileSync throws on one of the imports the section reads.
SectionReadThrows(fs, workdir, shown) ==
    \E n \in 1..Len(shown) : ~Readable(fs, workdir, shown[n].resolvedPath)

NoSections ==
    [analysed |-> FALSE, resolved |-> <<>>, candidates |-> <<>>, fallback |-> <<>>,
     models |-> <<>>, others |-> <<>>, localImports |-> <<>>,
     fallbackImports |-> <<>>, modelFields |-> <<>>, outlines |-> <<>>]

\* The sections of a readable file with the resolved imports after the
\* fallback, none of the reads throwing.
SectionsOf(fs, workdir, acc, fallback, resolved) ==
    [analysed |-> TRUE, resolved |-> resolved,
     candidates |-> UnresolvedCandidates(acc), fallback |-> fallback,
     models |-> ModelImports(resolved), others |-> OtherImports(resolved),
     localImports |-> ImportLines(acc.resolved),
     fallbackImports |-> ImportLines(fallback),
     modelFields |-> ModelFieldLines(fs, workdir,
                                     Take(ModelImports(resolved), ModelFieldsShown), 1),
     outlines |-> DependencyOutlines(fs, workdir,
                                     Take(OtherImports(resolved),
                                          DependencyOutlinesShown))]

\* The import analysis of a readable file throws: one of the files the two
\* sections read cannot be read.
SectionsThrow(fs, workdir, resolved) ==
    \/ SectionReadThrows(fs, workdir, Take(ModelImports(resolved), ModelFieldsShown))
    \/ SectionReadThrows(fs, workdir,
                         Take(OtherImports(resolved), DependencyOutlinesShown))

\* resolvedImports when the classification starts.
ResolvedOf(fs, workdir, AbsolutePath, acc) ==
    WithFallback(acc.resolved, FallbackResolved(fs, workdir, AbsolutePath, acc))

\* The java branch of a readable file throws.
JavaContextThrows(fs, workdir, AbsolutePath, ls) ==
    /\ AnalysesImports(AbsolutePath, ls)
    /\ SectionsThrow(fs, workdir,
                     ResolvedOf(fs, workdir, AbsolutePath,
                                ScannedImports(fs, workdir, AbsolutePath, ls)))

\* The java branch of a readable file never returns: an import reaches the
\* resolver and the upward walk from the file does not end.
JavaContextHangs(AbsolutePath, ls) ==
    /\ AnalysesImports(AbsolutePath, ls)
    /\ SomeImportEligible(ls)
    /\ RootWalkLoops(AbsolutePath)

\* The sections of a readable file whose java branch returns.
JavaContext(fs, workdir, AbsolutePath, ls) ==
    IF ~AnalysesImports(AbsolutePath, ls) THEN NoSections
    ELSE SectionsOf(fs, workdir, ScannedImports(fs, workdir, AbsolutePath, ls),
                    FallbackResolved(fs, workdir, AbsolutePath,
                                     ScannedImports(fs, workdir, AbsolutePath, ls)),
                    ResolvedOf(fs, workdir, AbsolutePath,
                               ScannedImports(fs, workdir, AbsolutePath, ls)))

\* The last line offset the window adds to its start (effectiveStart + 499).
PageSpan == 499

\* The pagination locals: StartLine and EndLine are the request's numbers, 0
\* for one that is absent (0 and undefined are both falsy).
EffectiveStart(StartLine) == Max(1, IF StartLine = 0 THEN 1 ELSE StartLine)

EffectiveEnd(ls, StartLine, EndLine) ==
    IF EndLine # 0 THEN EndLine
    ELSE Min(Len(ls), EffectiveStart(StartLine) + PageSpan)

\* The parts of an entry that is a marker line: "MISSING" with the
\* suggestion as body, or "ERROR".
MarkerEntry(hangs, kind, AbsolutePath, body) ==
    [hangs |-> hangs, kind |-> kind, path |-> AbsolutePath,
     from |-> 0, to |-> 0, total |-> 0, body |-> body, sections |-> NoSections]

\* The entry of a file that was read.  An exception in the java branch is
\* caught around the whole entry, which becomes the ERROR marker.
FileEntry(fs, workdir, AbsolutePath, StartLine, EndLine, ls) ==
    IF JavaContextHangs(AbsolutePath, ls)
    THEN MarkerEntry(TRUE, "FILE", AbsolutePath, <<>>)
    ELSE IF JavaContextThrows(fs, workdir, AbsolutePath, ls)
    THEN MarkerEntry(FALSE, "ERROR", AbsolutePath, <<>>)
    ELSE [hangs |-> FALSE, kind |-> "FILE", path |-> AbsolutePath,
          from |-> EffectiveStart(StartLine),
          to |-> EffectiveEnd(ls, StartLine, EndLine),
          total |-> Len(ls),
          body |-> Slice(ls, EffectiveStart(StartLine) - 1,
                         EffectiveEnd(ls, StartLine, EndLine)),
          sections |-> JavaContext(fs, workdir, AbsolutePath, ls)]

\* The callback of sortedPaths.map in the full-context handler.  hangs is TRUE
\* when the callback never returns; otherwise the record holds the parts of
\* the entry's text: the marker or the path and pagination header, the
\* sections of a .java file, and the body (the suggestion, or the source
\* window).
FullContextOutcome(fs, workdir, AbsolutePath, StartLine, EndLine) ==
    IF ~pathExists(fs, workdir, AbsolutePath) \/ ~isFile(fs, workdir, AbsolutePath)
    THEN IF RootWalkLoops(AbsolutePath)
         THEN MarkerEntry(TRUE, "MISSING", AbsolutePath, <<>>)
         ELSE MarkerEntry(FALSE, "MISSING", AbsolutePath,
                          <<findSimiliarFileGeneric(fs, workdir, AbsolutePath)>>)
    ELSE IF ~Readable(fs, workdir, AbsolutePath)
    THEN MarkerEntry(FALSE, "ERROR", AbsolutePath, <<>>)
    ELSE FileEntry(fs, workdir, AbsolutePath, StartLine, EndLine,
                   LinesOf(fs, workdir, AbsolutePath))

---------------------------------------------------------------------------
(* The files the three batch tools are run on.                             *)

ServiceDir == <<"/", "w", "/", "service">>
ImplDir == <<"/", "w", "/", "service", "/", "impl">>
MapperDir == <<"/", "w", "/", "mapper">>
TargetDir == <<"/", "w", "/", "target">>

UserServicePath == join(ServiceDir, <<"User", "Service", ".", "java">>)
UserServiceImplPath == join(ImplDir, <<"User", "Service", "Impl", ".", "java">>)
UserMapperPath == join(MapperDir, <<"User", "Mapper", ".", "java">>)
BuiltImplPath == join(TargetDir, <<"User", "Service", "Impl", ".", "java">>)
MovedServicePath == join(join(WorkDir, SrcName), <<"User", "Service", ".", "java">>)
NotesPath == join(WorkDir, <<"notes", ".", "txt">>)
ToolPath == join(WorkDir, <<"tool", ".", "py">>)
AbsentPath == join(WorkDir, <<"none", ".", "java">>)

UserServiceLines ==
    <<<<"public", " ", "interface", " ", "User", "Service", " ", "{">>,
      <<" ", "void", " ", "find", "(", ")", ";">>,
      <<"}">>>>

UserServiceImplLines ==
    <<<<"@", "Component">>,
      <<"public", " ", "class", " ", "User", "Service", "Impl", " ", "{">>,
      <<" ", "private", " ", "User", "Mapper", " ", "user", "Mapper", ";">>,
      <<" ", "public", " ", "void", " ", "find", "(", ")", " ", "{">>,
      <<" ", " ", "user", "Mapper", ".", "select", "(", ")", ";">>,
      <<" ", "}">>,
      <<"}">>>>

UserMapperLines ==
    <<<<"public", " ", "interface", " ", "User", "Mapper", " ", "{">>,
      <<" ", "void", " ", "select", "(", ")", ";">>,
      <<"}">>>>

NotesLines == <<<<"find", " ", "notes">>, <<"more">>>>

ToolLines ==
    <<<<"class", " ", "Tool", ":">>,
      <<" ", "def", " ", "run", "(", "self", ")", ":">>>>

\* The files in the order the stack-driven walk from /w meets them (the files
\* of a directory, then its sub-directories, last listed first).
BatchWalk ==
    <<NotesPath, ToolPath, BuiltImplPath, MovedServicePath, UserServicePath,
      UserServiceImplPath, UserMapperPath>>

BatchContent ==
    [f \in {NotesPath, ToolPath, BuiltImplPath, MovedServicePath, UserServicePath,
            UserServiceImplPath, UserMapperPath} |->
       IF f = NotesPath THEN NotesLines
       ELSE IF f = ToolPath THEN ToolLines
       ELSE IF f \in {UserServicePath, MovedServicePath} THEN UserServiceLines
       ELSE IF f = UserMapperPath THEN UserMapperLines
       ELSE UserServiceImplLines]

\* The tree under /w, the files of unreadable not open to the process.
BatchTree(unreadable) ==
    [dirs |-> {<<"/">>, WorkDir, ServiceDir, ImplDir, MapperDir, TargetDir,
                join(WorkDir, SrcName)},
     dirList |-> <<MapperDir, ServiceDir, ImplDir, join(WorkDir, SrcName), TargetDir>>,
     walk |-> BatchWalk,
     files |-> [f \in DOMAIN BatchContent |->
                  [lines |-> BatchContent[f], readable |-> f \notin unreadable]]]

BatchTrees ==
    {BatchTree(u) : u \in {{}, {UserServiceImplPath}, {UserMapperPath}, {NotesPath}}}

---------------------------------------------------------------------------
(* The batch machine: one call of a batch tool handler.  The handler checks *)
(* its batch argument, starts one task per entry (Array.map of an async    *)
(* callback), awaits Promise.all of the tasks and returns the response.    *)

\* Most entries of a batch argument.
MaxBatch == 2

OutlineTool == "view_files_outlines"
FullContextTool == "view_files_full_context"
CodeItemTool == "view_code_items"
Tools == {OutlineTool, FullContextTool, CodeItemTool}

ItemQueries ==
    {[File |-> UserServicePath, ItemName |-> <<"find">>],
     [File |-> MovedServicePath, ItemName |-> <<"find">>],
     [File |-> UserServiceImplPath, ItemName |-> <<"find">>],
     [File |-> UserMapperPath, ItemName |-> <<"nothing">>],
     [File |-> AbsentPath, ItemName |-> <<"find">>],
     [File |-> NotesPath, ItemName |-> <<"find">>]}

OutlinePaths ==
    {UserServicePath, UserServiceImplPath, NotesPath, ToolPath, AbsentPath, ServiceDir}

FullContextPaths == {NotesPath, ToolPath, AbsentPath, ServiceDir, <<"notes", ".", "txt">>}

\* The strings given where a list is expected, as their characters.
StringInputs == {<<>>, <<"/">>, <<"a">>}

ArraysOf(S) == UNION {[1..n -> S] : n \in 0..MaxBatch}

\* A batch argument that is a list: an array of entries.
ListArguments(entries) == {[kind |-> "array", elems |-> a] : a \in ArraysOf(entries)}

\* A batch argument that is not a list: a string (elems are its characters,
\* each a one-character path), a number, or undefined.
OtherArguments ==
    {[kind |-> "string", elems |-> [k \in 1..Len(str) |-> <<str[k]>>]] :
       str \in StringInputs}
      \cup {[kind |-> "number", elems |-> <<>>], [kind |-> "undefined", elems |-> <<>>]}

\* StartLine and EndLine of a full-context request; 0 is an absent EndLine.
Paginations == {<<1, 0>>, <<2, 0>>, <<3, 0>>, <<1, 1>>}

\* The entries a list given to the tool is made of.
EntriesOf(t) ==
    IF t = OutlineTool THEN OutlinePaths
    ELSE IF t = CodeItemTool THEN ItemQueries
    ELSE FullContextPaths

\* The input of a call: the batch argument and, for the full-context tool,
\* the window bounds.
Requests(t, args) ==
    IF t = FullContextTool
    THEN {[arg |-> b, StartLine |-> pg[1], EndLine |-> pg[2]] :
            b \in args, pg \in Paginations}
    ELSE {[arg |-> b, StartLine |-> 1, EndLine |-> 0] : b \in args}

\* Array.isArray(arg)
IsArray(arg) == arg.kind = "array"

\* arg?.length is truthy
HasLength(arg) == arg.kind \in {"array", "string"} /\ Len(arg.elems) > 0

\* The handler goes past its argument check.
GuardPasses(t, arg) ==
    IF t = FullContextTool THEN HasLength(arg)
    ELSE IsArray(arg) /\ Len(arg.elems) # 0

NoResponse == [kind |-> "none", entries |-> <<>>]
TopLevelError == [kind |-> "error", entries |-> <<>>]
Rejected == [kind |-> "rejected", entries |-> <<>>]

\* The array the handler maps its callback over.
MappedOver(t, arg) == IF t = FullContextTool THEN SortByRole(arg.elems) ELSE arg.elems

\* The promise of a callback that returned value.
Fulfilled(value) == [threw |-> FALSE, hangs |-> FALSE, value |-> value]

\* The promise of the full-context callback, or its endless loop.
FullContextTask(outcome) == [threw |-> FALSE, hangs |-> outcome.hangs, value |-> outcome]

\* What the callback does for one entry: it throws (its promise rejects), it
\* never returns, or its promise fulfils with value.
TaskOutcome(fs, workdir, t, req, entry) ==
    IF t = OutlineTool THEN Fulfilled(OutlineOutcome(fs, workdir, entry))
    ELSE IF t = CodeItemTool THEN ItemOutcome(fs, workdir, entry)
    ELSE FullContextTask(FullContextOutcome(fs, workdir, entry, req.StartLine,
                                            req.EndLine))

\* A mis-built Promise.all: the values in the order the tasks settle.
StoreInSettleOrder(res, i, v) ==
    LET free == {k \in 1..Len(res) : Len(res[k]) = 0} IN
        [res EXCEPT ![MinOf(free)] = <<v>>]

\* Promise.all keeps the value of task i at index i.
StoreAt(res, i, v) == [res EXCEPT ![i] = <<v>>]

InitBatch ==
    /\ BlockUnused
    /\ WalkUnused
    /\ ContextUnused
    /\ ExtractUnused
    /\ fsys \in BatchTrees
    /\ cwd = WorkDir
    /\ tool \in Tools
    /\ \/ request \in Requests(tool, ListArguments(EntriesOf(tool)))
       \/ request \in Requests(tool, OtherArguments)
    /\ order = <<>>
    /\ tasks = <<>>
    /\ pending = {}
    /\ results = <<>>
    /\ response = NoResponse
    /\ pc = "called"

batchFixed == <<lines, hitIndex, frame, blockRange, snippet, fsys, cwd, tool, request,
                startPath, topPomRoot, current, lastSrcRoot, lastMultiModuleRoot, iter,
                analysis, language, outlineItems, fieldInfos>>

\* The argument check fails: the handler returns its one error.
RejectInput ==
    /\ pc = "called"
    /\ ~GuardPasses(tool, request.arg)
    /\ response' = TopLevelError
    /\ pc' = "responded"
    /\ UNCHANGED <<order, tasks, pending, results>>
    /\ UNCHANGED batchFixed

\* What each callback does, in the order map calls them.
TasksOf(fs, workdir, t, req, entries) ==
    [i \in 1..Len(entries) |-> TaskOutcome(fs, workdir, t, req, entries[i])]

\* The callbacks that run: all of them, or those up to the first that never
\* returns.
TasksRun(all) ==
    LET stuck == {i \in 1..Len(all) : all[i].hangs} IN
        IF stuck = {} THEN all ELSE SubSeq(all, 1, MinOf(stuck))

\* The argument check passes: map runs the callbacks one after the other, each
\* up to its return, throw or endless loop; a callback that never returns
\* keeps the later ones, and the handler, from running.
MapTasks ==
    /\ pc = "called"
    /\ GuardPasses(tool, request.arg)
    /\ order' = MappedOver(tool, request.arg)
    /\ tasks' = TasksRun(TasksOf(fsys, cwd, tool, request,
                                 MappedOver(tool, request.arg)))
    /\ IF tasks' # <<>> /\ tasks'[Len(tasks')].hangs
       THEN /\ pending' = {}
            /\ results' = <<>>
            /\ pc' = "hung"
       ELSE /\ pending' = 1..Len(tasks')
            /\ results' = [i \in 1..Len(tasks') |-> <<>>]
            /\ pc' = "awaiting"
    /\ UNCHANGED response
    /\ UNCHANGED batchFixed

\* The promise of task i settles.  A rejection rejects Promise.all, and with
\* it the handler's own promise: no response text is built.
Settle(i) ==
    /\ pc = "awaiting"
    /\ i \in pending
    /\ pending' = pending \ {i}
    /\ IF tasks[i].threw
       THEN /\ response' = Rejected
            /\ pc' = "rejected"
            /\ UNCHANGED results
       ELSE /\ results' = StoreAt(results, i, tasks[i].value)
            /\ UNCHANGED <<response, pc>>
    /\ UNCHANGED <<order, tasks>>
    /\ UNCHANGED batchFixed

\* Every task has fulfilled: the handler returns the results, joined.
Respond ==
    /\ pc = "awaiting"
    /\ pending = {}
    /\ response' = [kind |-> "results",
                    entries |-> [i \in 1..Len(results) |-> results[i][1]]]
    /\ pc' = "responded"
    /\ UNCHANGED <<order, tasks, pending, results>>
    /\ UNCHANGED batchFixed

NextBatch == RejectInput \/ MapTasks \/ (\E i \in 1..MaxBatch : Settle(i)) \/ Respond

SpecBatch == InitBatch /\ [][NextBatch]_vars

---------------------------------------------------------------------------
(* Properties of the block range.                                          *)

\* Positions <<line, character>> in reading order.
PosBefore(p, q) == p[1] < q[1] \/ (p[1] = q[1] /\ p[2] < q[2])
PosAtOrBefore(p, q) == p = q \/ PosBefore(p, q)
FirstPos(S) == CHOOSE p \in S : \A q \in S : PosAtOrBefore(p, q)

LastLine(ls) == Len(ls) - 1

\* Every "}" of the file closes an earlier "{" and every "{" is closed.
Balanced(ls) ==
    LET opens == PositionsOf(ls, 0, LastLine(ls), "{")
        closes == PositionsOf(ls, 0, LastLine(ls), "}")
    IN  /\ Cardinality(opens) = Cardinality(closes)
        /\ \A p \in closes :
              Cardinality({q \in opens : PosBefore(q, p)})
                >= Cardinality({q \in closes : PosAtOrBefore(q, p)})

\* The first ";" or "{" at or after line s, in reading order (the set is empty
\* when there is none).
MarksFrom(ls, s) ==
    PositionsOf(ls, s, LastLine(ls), ";") \cup PositionsOf(ls, s, LastLine(ls), "{")

\* Scanning forward from s, an opening brace comes before any terminator.
HasBody(ls, s) ==
    /\ MarksFrom(ls, s) # {}
    /\ LET m == FirstPos(MarksFrom(ls, s)) IN At(ls, m[1])[m[2]] = "{"

\* The lines holding a "}" that brings the depth, counted from the first "{"
\* at or after line s, back to zero.
ClosingLines(ls, s) ==
    LET first == FirstPos(PositionsOf(ls, s, LastLine(ls), "{"))
        opens == {q \in PositionsOf(ls, s, LastLine(ls), "{") : PosAtOrBefore(first, q)}
        closes == {q \in PositionsOf(ls, s, LastLine(ls), "}") : PosBefore(first, q)}
    IN  {p[1] : p \in {c \in closes :
             Cardinality({q \in opens : PosBefore(q, c)})
               = Cardinality({q \in closes : PosAtOrBefore(q, c)})}}

(* C1: whenever findBlockRange returns a range, start <= hit <= end, on the
   declaration-only path and on the brace-matching path alike. *)
C1_RangeContainsHit ==
    (pc # "hit" /\ blockRange.found)
        => (blockRange.start <= hitIndex /\ hitIndex <= blockRange.end)

(* C7: in a file with balanced braces, for a signature start whose item has a
   body, the range is found and its end is the line of the closing brace that
   brings the depth back to zero counting from the first opening brace at or
   after the start, also when a closing brace precedes that opening brace on
   its line. *)
C7_EndIsMatchingBrace ==
    (pc # "hit" /\ Balanced(lines) /\ HasBody(lines, frame.signatureIndex))
        => /\ blockRange.found
           /\ blockRange.start = frame.signatureIndex
           /\ blockRange.end = MinOf(ClosingLines(lines, frame.signatureIndex))

(* C8 as stated: "before" read by character position.  When the first ";" or
   "{" at or after the signature start is a ";", the range ends at its line and
   no brace matching is done; when it is a "{", the declaration-only path is
   not taken. *)
C8_DeclarationOnlyPositional ==
    (pc # "hit" /\ MarksFrom(lines, frame.signatureIndex) # {})
        => LET m == FirstPos(MarksFrom(lines, frame.signatureIndex)) IN
              IF At(lines, m[1])[m[2]] = ";"
              THEN /\ blockRange = [found |-> TRUE, start |-> frame.signatureIndex,
                                    end |-> m[1]]
                   /\ ~frame.openRan /\ ~frame.matchRan
              ELSE frame.signatureEndIndex = -1

(* C8 amended: "before" read by line.  Let L be the first line at or after the
   signature start that holds a ";" or a "{".  When L holds no "{", the range
   ends at L and no brace matching is done; when L holds a "{" (with or without
   a ";" before it), the declaration-only path is not taken and the brace path
   runs. *)
C8_DeclarationOnlyByLine ==
    (pc # "hit" /\ MarksFrom(lines, frame.signatureIndex) # {})
        => LET L == FirstPos(MarksFrom(lines, frame.signatureIndex))[1] IN
              IF ~HasOpenBrace(At(lines, L))
              THEN /\ blockRange = [found |-> TRUE, start |-> frame.signatureIndex,
                                    end |-> L]
                   /\ ~frame.openRan /\ ~frame.matchRan
              ELSE frame.signatureEndIndex = -1 /\ frame.openRan

\* A declaration whose terminator is on a later line than its signature start
\* was ranged without brace matching.
C8_Witness ==
    /\ pc = "done"
    /\ frame.signatureEndIndex > frame.signatureIndex
    /\ ~frame.openRan
    /\ blockRange.found

(* C9: when the name is found at the hit line but findBlockRange returns null,
   the snippet is found, non-empty and made of the 10 lines before the hit, the
   hit line and the 60 lines after it, clipped to the file; startLine and
   endLine are the 1-based numbers of its first and last line. *)
C9_FallbackWindow ==
    (pc = "done" /\ ~blockRange.found)
        => LET first == Max(0, hitIndex - 10)
               last == Min(LastLine(lines), hitIndex + 60)
           IN  /\ snippet.found
               /\ SnippetBody(snippet.text) # <<>>
               /\ SnippetBody(snippet.text) = Slice(lines, first, last + 1)
               /\ snippet.startLine = first + 1
               /\ snippet.endLine = last + 1

(* C10: the signature-start backtrack is idempotent: run again from the start
   it computed, it returns that start. *)
C10_SignatureStartIdempotent ==
    pc # "hit" => findSignatureStart(lines, frame.signatureIndex) = frame.signatureIndex

\* The backtrack moved the start at least two lines above the hit.
C10_Witness ==
    pc # "hit" /\ frame.signatureIndex + 2 <= hitIndex

---------------------------------------------------------------------------
(* Properties of project-root discovery.                                   *)

(* C6: every request returns; in particular the upward walks of project-root
   discovery reach their stopping condition for every start path, a path that
   is not absolute included. *)
C6_RootWalkReturns == <>(pc = "returned")

\* The walk machine agrees with the one-shot findProjectRoot where it returns.
WalkMachineAgrees ==
    pc = "returned" =>
        /\ ~RootWalkLoops(startPath)
        /\ RootChosen(topPomRoot, lastMultiModuleRoot, lastSrcRoot)
             = findProjectRoot(fsys, cwd, startPath)

---------------------------------------------------------------------------
(* Properties of the batch tools.                                          *)

\* The handler was given a non-empty list.
NonEmptyList == IsArray(request.arg) /\ Len(request.arg.elems) > 0

\* The queried file of a code-item query exists and cannot be read.
UnreadableQuery(q) == isFile(fsys, cwd, q.File) /\ ~Readable(fsys, cwd, q.File)

\* The queried file of a code-item query does not exist, or it is read and no
\* line of it contains the item name.
NotFoundQuery(q) ==
    \/ ~pathExists(fsys, cwd, q.File)
    \/ /\ Readable(fsys, cwd, q.File)
       /\ ItemIndex(LinesOf(fsys, cwd, q.File), q.ItemName) = -1

\* C2: in a code-item batch, a read failure on a queried file that exists is
\* confined to its query: the batch call completes (it is never rejected),
\* that query's text block is the read-failure error string, and every other
\* query's block is the one the query gets alone.
C2_ReadFailureConfined ==
    (tool = CodeItemTool /\ NonEmptyList
       /\ \E i \in 1..Len(request.arg.elems) : UnreadableQuery(request.arg.elems[i]))
    => /\ pc # "rejected"
       /\ pc = "responded" =>
            /\ response.kind = "results"
            /\ Len(response.entries) = Len(request.arg.elems)
            /\ \A i \in 1..Len(request.arg.elems) :
                 IF UnreadableQuery(request.arg.elems[i])
                 THEN response.entries[i] = <<ReadFailedMarker(request.arg.elems[i].File)>>
                 ELSE response.entries[i]
                        = ItemOutcome(fsys, cwd, request.arg.elems[i]).value

\* C3: an outline request with a non-empty list of n paths is answered with
\* exactly n results, result i for input path i whatever order the tasks
\* settle in; a path that is missing, not a regular file or unreadable gets
\* {path, error} at its position only, and every other position holds the
\* outline result of its path.
C3_OutlineResultsInInputOrder ==
    (tool = OutlineTool /\ NonEmptyList)
    => /\ pc \notin {"rejected", "hung"}
       /\ pc = "responded" =>
            /\ response.kind = "results"
            /\ Len(response.entries) = Len(request.arg.elems)
            /\ \A i \in 1..Len(request.arg.elems) :
                 /\ response.entries[i].path = request.arg.elems[i]
                 /\ response.entries[i].ok = Readable(fsys, cwd, request.arg.elems[i])
                 /\ ~response.entries[i].ok => response.entries[i].outline = <<>>
                 /\ response.entries[i]
                      = OutlineOutcome(fsys, cwd, request.arg.elems[i])

\* An outline batch of two paths was answered: an outline first, an error
\* descriptor second.
C3_Witness ==
    /\ tool = OutlineTool /\ NonEmptyList
    /\ pc = "responded"
    /\ Len(response.entries) = 2
    /\ response.entries[1].ok /\ response.entries[1].totalItems > 0
    /\ ~response.entries[2].ok

\* C4: a code-item query whose file does not exist, or none of whose lines
\* contains the item name, gets found = false from extractSnippet with a
\* non-empty marker text that holds the file path (and the item name when
\* the file exists); and the batch it is in is answered with one text block
\* per query.
C4_NotFoundMarkerPerQuery ==
    (tool = CodeItemTool /\ NonEmptyList
       /\ \E i \in 1..Len(request.arg.elems) : NotFoundQuery(request.arg.elems[i]))
    => /\ \A i \in 1..Len(request.arg.elems) :
            NotFoundQuery(request.arg.elems[i]) =>
              /\ ~extractSnippet(fsys, cwd, request.arg.elems[i].File,
                                 request.arg.elems[i].ItemName).found
              /\ includes(extractSnippet(fsys, cwd, request.arg.elems[i].File,
                                         request.arg.elems[i].ItemName).text[1],
                          request.arg.elems[i].File)
              /\ pathExists(fsys, cwd, request.arg.elems[i].File) =>
                   includes(extractSnippet(fsys, cwd, request.arg.elems[i].File,
                                           request.arg.elems[i].ItemName).text[1],
                            request.arg.elems[i].ItemName)
       /\ pc # "rejected"
       /\ pc = "responded" =>
            /\ response.kind = "results"
            /\ Len(response.entries) = Len(request.arg.elems)

\* C5: for each of the three batch tools, a batch argument that is empty or
\* is not a list is answered with the one top-level error and no entry is
\* processed: no task is started, whatever length the argument has.
C5_MalformedBatchRejectedOnce ==
    ~NonEmptyList
    => /\ tasks = <<>>
       /\ pc \in {"called", "responded"}
       /\ pc = "responded" => response = TopLevelError

---------------------------------------------------------------------------
(* Properties of the signature-start backtrack and of the chosen root.     *)

\* An annotation line or a comment line / continuation.
AnnotationOrComment(line) ==
    \/ startsWith(trim(line), <<"@">>)
    \/ startsWith(trim(line), <<"*">>)
    \/ startsWith(trim(line), <<"/", "*">>)
    \/ startsWith(trim(line), <<"/", "/">>)

\* The first line of the contiguous run of annotation and comment lines
\* directly above line h (h itself when the line above is none).
RunStart(ls, h) ==
    MinOf({j \in 0..h : \A k \in j..(h - 1) : AnnotationOrComment(At(ls, k))})

\* A line that ends with a statement terminator, or a block closer.
TerminatorOrCloser(line) ==
    \/ endsWith(trim(line), <<";">>)
    \/ endsWith(trim(line), <<"}">>)
    \/ startsWith(trim(line), <<"}">>)

(* C19: the start the signature-start backtrack computes is the hit line, or
   the first line of the contiguous annotation/comment run directly above it;
   it is never a blank line, and no line the walk went over ends with a
   statement terminator or is a block closer. *)
C19_StartIsRunStart ==
    pc # "hit" =>
        /\ frame.signatureIndex = RunStart(lines, hitIndex)
        /\ frame.signatureIndex < hitIndex =>
              trim(At(lines, frame.signatureIndex)) # <<>>
        /\ \A k \in frame.signatureIndex..(hitIndex - 1) :
              ~TerminatorOrCloser(At(lines, k))

\* The directories above an absolute path, the root directory among them.
AncestorsOf(p) ==
    {<<"/">>} \cup {SubSeq(p, 1, k - 1) : k \in {n \in 2..Len(p) : p[n] = "/"}}

\* The member of a set of ancestors that is closest to the file.
Nearest(S) == CHOOSE d \in S : \A e \in S : Len(e) <= Len(d)

\* d holds a pom.xml and at least two child directories with a src/main/java.
MultiModuleRoot(fs, d) ==
    /\ join(d, PomName) \in DOMAIN fs.files
    /\ Cardinality({c \in fs.dirs : c # <<"/">> /\ dirname(c) = d
                                      /\ join(c, JavaRootRel) \in fs.dirs}) >= 2

\* d holds a src directory.
SingleModuleRoot(fs, d) == join(d, SrcName) \in fs.dirs

NearestRoot(fs, p) ==
    LET multi == {d \in AncestorsOf(p) : MultiModuleRoot(fs, d)}
        single == {d \in AncestorsOf(p) : SingleModuleRoot(fs, d)}
    IN  IF multi # {} THEN Nearest(multi)
        ELSE IF single # {} THEN Nearest(single)
        ELSE NoPath

(* C20: project-root discovery returns the nearest ancestor that holds both a
   pom.xml and at least two child directories with a src/main/java, if an
   ancestor does; otherwise the nearest ancestor that holds a src directory;
   otherwise no root. *)
C20_NearestRootChosen ==
    pc = "returned" =>
        RootChosen(topPomRoot, lastMultiModuleRoot, lastSrcRoot)
            = NearestRoot(fsys, startPath)

---------------------------------------------------------------------------
(* Properties of the full-context response.                                *)

\* A full-context call with a list of paths has returned its blocks.
FullContextResponded ==
    /\ pc = "responded"
    /\ tool = FullContextTool
    /\ request.arg.kind = "array"
    /\ response.kind = "results"

\* The architectural role of a path, earliest first: entry layer, service,
\* implementation, messaging, persistence, data model, unrecognized.
RoleRank(p) ==
    IF Mentions(p, "controller") \/ Mentions(p, "api") THEN "1 entry"
    ELSE IF Mentions(p, "impl") THEN "3 implementation"
    ELSE IF Mentions(p, "service") THEN "2 service"
    ELSE IF \E w \in {"mq", "listener", "consumer", "producer"} : Mentions(p, w)
         THEN "4 messaging"
    ELSE IF \E w \in {"mapper", "repository", "dao"} : Mentions(p, w)
         THEN "5 persistence"
    ELSE IF \E w \in {"dto", "vo", "entity", "model"} : Mentions(p, w)
         THEN "6 data model"
    ELSE "7 unrecognized"

RoleOrder ==
    <<"1 entry", "2 service", "3 implementation", "4 messaging", "5 persistence",
      "6 data model", "7 unrecognized">>

EarlierRole(p, q) ==
    \E a, b \in 1..Len(RoleOrder) :
        a < b /\ RoleOrder[a] = RoleRank(p) /\ RoleOrder[b] = RoleRank(q)

\* How many times x occurs in a sequence.
Occurrences(sq, x) == Cardinality({k \in 1..Len(sq) : sq[k] = x})

(* C14: in a full-context response the blocks are in architectural-role order:
   no block comes after the block of a path with a strictly later role,
   whatever the input order; the response holds one block per input path. *)
C14_BlocksInRoleOrder ==
    FullContextResponded =>
        /\ Len(response.entries) = Len(request.arg.elems)
        /\ \A p \in FullContextPaths :
              Occurrences([k \in 1..Len(response.entries) |-> response.entries[k].path], p)
                = Occurrences(request.arg.elems, p)
        /\ \A i, j \in 1..Len(response.entries) :
              i < j => ~EarlierRole(response.entries[j].path, response.entries[i].path)

\* A batch given with the later role first was answered.
C14_Witness ==
    /\ FullContextResponded
    /\ Len(request.arg.elems) = 2
    /\ EarlierRole(request.arg.elems[2], request.arg.elems[1])
    /\ response.entries[1].path = request.arg.elems[2]

(* C15: with no EndLine, the raw-source window of a file starts at line
   max(1, StartLine), holds at most 500 lines and ends at or before the file's
   last line; the start and end the pagination header prints are the first and
   the last line of the window returned. *)
C15_WindowMatchesHeader ==
    (FullContextResponded /\ request.EndLine = 0) =>
        \A k \in 1..Len(response.entries) :
            response.entries[k].kind = "FILE" =>
                LET e == response.entries[k]
                    ls == LinesOf(fsys, cwd, e.path)
                IN  /\ e.from = Max(1, request.StartLine)
                    /\ Len(e.body) <= PageSpan + 1
                    /\ e.from <= e.to
                    /\ e.to <= Len(ls)
                    /\ e.body = SubSeq(ls, e.from, e.to)

---------------------------------------------------------------------------
(* Properties of the code-item response.                                   *)

\* The query of end-to-end scenario 2: the interface file and a method it
\* declares without a body.
InterfaceQuery == [File |-> UserServicePath, ItemName |-> <<"find">>]

\* The blocks of a query's text block that are snippets (a call-path section
\* is not one).
SnippetBlocks(blocks) ==
    LET IsSnippet(b) == b[1] # <<"--- call path ---">> IN Filter(blocks, IsSnippet)

(* C17: the query (service/UserService.java, find), the interface declaring
   find without a body and service/impl/UserServiceImpl.java being the one
   implementation file the search reaches, returns exactly two snippets: the
   interface declaration, its range ending at its terminator line, and one
   implementation snippet labelled 1/1; the implementation file appears once
   though path derivation and the class-name search both reach it. *)
C17_InterfaceAndOneImpl ==
    (/\ pc = "responded" /\ tool = CodeItemTool /\ response.kind = "results"
     /\ Readable(fsys, cwd, UserServiceImplPath)) =>
        \A k \in 1..Len(order) :
            order[k] = InterfaceQuery =>
                LET snippets == SnippetBlocks(response.entries[k]) IN
                    /\ Len(snippets) = 2
                    /\ snippets[1] = <<LocatedHeader(UserServicePath, 2, 2, <<"find">>),
                                       <<>>, UserServiceLines[2]>>
                    /\ includes(UserServiceLines[2], <<";">>)
                    /\ snippets[2] =
                         <<ImplHeader(<<"User", "Service", "Impl">>, 1, 1),
                           LocatedHeader(UserServiceImplPath, 4, 6, <<"find">>), <<>>>>
                           \o SubSeq(UserServiceImplLines, 4, 6)

\* The scenario's query was answered, the implementation file being reached
\* both by the derived path and by the class-name search.
C17_Witness ==
    /\ pc = "responded" /\ tool = CodeItemTool /\ response.kind = "results"
    /\ Readable(fsys, cwd, UserServiceImplPath)
    /\ \E k \in 1..Len(order) : order[k] = InterfaceQuery
    /\ buildImplFilePath(UserServicePath) = UserServiceImplPath
    /\ UserServiceImplPath
         \in {findImplFiles(fsys, cwd, cwd, <<"User", "Service", "Impl">>)[n] :
                n \in 1..Len(findImplFiles(fsys, cwd, cwd, <<"User", "Service", "Impl">>))}

---------------------------------------------------------------------------
(* The files the import analysis is run on: a project /p with a module     *)
(* /p/mod and a build output /p/target, a project /q next to it, and a     *)
(* directory /n with no project root above it.                             *)

\* Most import statements of the analysed file.
MaxImports == 2

ProjectDir == <<"/", "p">>
ModuleDir == <<"/", "p", "/", "mod">>
OtherProjectDir == <<"/", "q">>
RootlessDir == <<"/", "n">>

ContextFilePath == join(join(ProjectDir, JavaRootRel), <<"com", "/", "x", "/", "A", ".", "java">>)
RootlessPath == join(RootlessDir, <<"A", ".", "java">>)
UserDTOPath ==
    join(join(ProjectDir, JavaRootRel),
         <<"com", "/", "x", "/", "model", "/", "User", "DTO", ".", "java">>)
UserDaoPath ==
    join(join(ModuleDir, JavaRootRel),
         <<"com", "/", "x", "/", "dao", "/", "User", "Dao", ".", "java">>)
HelperPath ==
    join(join(ModuleDir, JavaRootRel),
         <<"com", "/", "y", "/", "vo", "/", "Helper", ".", "java">>)
BuiltHelperPath ==
    join(ProjectDir,
         <<"target", "/", "classes", "/", "com", "/", "x", "/", "gen", "/",
           "Helper", ".", "java">>)
OutsideHelperPath ==
    join(join(OtherProjectDir, JavaRootRel),
         <<"com", "/", "x", "/", "old", "/", "Helper", ".", "java">>)

UserDTOImport == <<"com", ".", "x", ".", "model", ".", "User", "DTO">>
UserDaoImport == <<"com", ".", "x", ".", "dao", ".", "User", "Dao">>
OldHelperImport == <<"com", ".", "x", ".", "old", ".", "Helper">>
AnnotationHelperImport == <<"com", ".", "x", ".", "annotation", ".", "Helper">>
UtilHelperImport == <<"com", ".", "x", ".", "util", ".", "Helper">>
ForeignImport == <<"org", ".", "lib", ".", "Thing">>

\* The class names an import statement of the analysed file may name.
ImportPool ==
    {UserDTOImport, UserDaoImport, OldHelperImport, AnnotationHelperImport,
     UtilHelperImport, ForeignImport}

ImportLists == UNION {[1..n -> ImportPool] : n \in 0..MaxImports}

PackageLine(name) == <<"package", " ">> \o name \o <<";">>

\* The analysed file: package com.x, the imports, and an empty class.
ContextLines(imports) ==
    <<PackageLine(<<"com", ".", "x">>)>>
        \o [n \in 1..Len(imports) |-> <<"import", " ">> \o imports[n] \o <<";">>]
        \o <<<<"class", " ", "A", " ", "{">>, <<"}">>>>

UserDTOLines ==
    <<PackageLine(<<"com", ".", "x", ".", "model">>),
      <<"public", " ", "class", " ", "User", "DTO", " ", "{">>,
      <<" ", " ", "/", "/", " ", "user", " ", "id">>,
      <<" ", " ", "private", " ", "Long", " ", "id", ";">>,
      <<" ", " ", "private", " ", "String", " ", "name", ";", " ",
        "/", "/", " ", "user", " ", "name">>,
      <<"}">>>>

UserDaoLines ==
    <<PackageLine(<<"com", ".", "x", ".", "dao">>),
      <<"public", " ", "interface", " ", "User", "Dao", " ", "{">>,
      <<" ", " ", "User", " ", "find", "(", "Long", " ", "id", ")", ";">>,
      <<"}">>>>

HelperLines ==
    <<PackageLine(<<"com", ".", "y", ".", "vo">>),
      <<"public", " ", "class", " ", "Helper", " ", "{">>,
      <<"}">>>>

BuiltHelperLines ==
    <<PackageLine(<<"com", ".", "x", ".", "gen">>),
      <<"public", " ", "class", " ", "Helper", " ", "{">>,
      <<"}">>>>

OutsideHelperLines ==
    <<PackageLine(<<"com", ".", "x", ".", "old">>),
      <<"public", " ", "class", " ", "Helper", " ", "{">>,
      <<"}">>>>

\* The files in the order a recursive walk from "/" meets them.
ContextWalk ==
    <<RootlessPath, UserDaoPath, HelperPath, ContextFilePath, UserDTOPath,
      BuiltHelperPath, OutsideHelperPath>>

ContextContent(imports) ==
    [f \in {ContextWalk[n] : n \in 1..Len(ContextWalk)} |->
       IF f \in {ContextFilePath, RootlessPath} THEN ContextLines(imports)
       ELSE IF f = UserDTOPath THEN UserDTOLines
       ELSE IF f = UserDaoPath THEN UserDaoLines
       ELSE IF f = HelperPath THEN HelperLines
       ELSE IF f = BuiltHelperPath THEN BuiltHelperLines
       ELSE OutsideHelperLines]

\* The directories above a path, the root directory left out.
DirsAbove(p) == {SubSeq(p, 1, k - 1) : k \in {n \in 2..Len(p) : p[n] = "/"}}

ContextDirs == UNION {DirsAbove(ContextWalk[n]) : n \in 1..Len(ContextWalk)}

\* The position of the first file of the walk that lies under d.
FirstFileUnder(d) ==
    MinOf({n \in 1..Len(ContextWalk) : startsWith(ContextWalk[n], d \o <<"/">>)})

\* The directories in the order the walk enters them: readdirSync lists the
\* children of a directory in the order the walk meets their files.
RECURSIVE InWalkOrder(_)
InWalkOrder(S) ==
    IF S = {} THEN <<>>
    ELSE LET d == CHOOSE x \in S :
                    \A y \in S : \/ FirstFileUnder(x) < FirstFileUnder(y)
                                 \/ /\ FirstFileUnder(x) = FirstFileUnder(y)
                                    /\ Len(x) <= Len(y)
         IN  <<d>> \o InWalkOrder(S \ {d})

ContextDirList == InWalkOrder(ContextDirs)

\* The tree, the files of unreadable not open to the process.
ContextTree(imports, unreadable) ==
    [dirs |-> {<<"/">>} \cup ContextDirs,
     dirList |-> ContextDirList,
     walk |-> ContextWalk,
     files |-> [f \in DOMAIN ContextContent(imports) |->
                  [lines |-> ContextContent(imports)[f],
                   readable |-> f \notin unreadable]]]

ContextTrees ==
    {ContextTree(imports, u) :
       imports \in ImportLists,
       u \in {{}, {UserDTOPath}, {UserDaoPath}, {HelperPath}}}

---------------------------------------------------------------------------
(* The analysis machine: the callback of the full-context handler for one  *)
(* entry with the default window, run one part of the java branch at a     *)
(* time.                                                                   *)

NoEntry == MarkerEntry(FALSE, "NONE", NoPath, <<>>)

InitContext ==
    /\ BlockUnused
    /\ WalkUnused
    /\ ExtractUnused
    /\ fsys \in ContextTrees
    /\ cwd = ProjectDir
    /\ tool = Unused /\ request = Unused /\ order = Unused /\ tasks = Unused
    /\ pending = Unused /\ results = Unused /\ response = Unused
    /\ \E p \in {ContextFilePath, RootlessPath} :
         analysis = [path |-> p, acc |-> NoImports, candidates |-> <<>>,
                     fallback |-> <<>>,
                     resolved |-> <<>>, models |-> <<>>, others |-> <<>>,
                     entry |-> NoEntry]
    /\ pc = "read"

contextFixed == <<lines, hitIndex, frame, blockRange, snippet, fsys, cwd, tool, request,
                  order, tasks, pending, results, response, startPath, topPomRoot,
                  current, lastSrcRoot, lastMultiModuleRoot, iter, language,
                  outlineItems, fieldInfos>>

\* The entry is finished with the given parts.
Finish(entry) ==
    /\ analysis' = [analysis EXCEPT !.entry = entry]
    /\ pc' = "done"

\* The callback up to the import loop: a path that is missing, cannot be
\* read or has no imports to analyse is answered at once.
ReadSource ==
    /\ pc = "read"
    /\ IF /\ Readable(fsys, cwd, analysis.path)
          /\ AnalysesImports(analysis.path, LinesOf(fsys, cwd, analysis.path))
       THEN pc' = "scan" /\ UNCHANGED analysis
       ELSE Finish(FullContextOutcome(fsys, cwd, analysis.path, 0, 0))
    /\ UNCHANGED contextFixed

\* The loop over the imports.
ScanImports ==
    /\ pc = "scan"
    /\ analysis' = [analysis EXCEPT
                      !.acc = ScannedImports(fsys, cwd, analysis.path,
                                             LinesOf(fsys, cwd, analysis.path))]
    /\ pc' = "fallback"
    /\ UNCHANGED contextFixed

\* The candidates are collected and, when there is one, looked up by simple
\* name; the results not seen before join resolvedImports.
RunFallback ==
    /\ pc = "fallback"
    /\ analysis' =
         [analysis EXCEPT
            !.candidates = UnresolvedCandidates(analysis.acc),
            !.fallback = FallbackResolved(fsys, cwd, analysis.path, analysis.acc),
            !.resolved = ResolvedOf(fsys, cwd, analysis.path, analysis.acc)]
    /\ pc' = "classify"
    /\ UNCHANGED contextFixed

\* modelImports and otherImports are filtered out of resolvedImports.
Classify ==
    /\ pc = "classify"
    /\ analysis' = [analysis EXCEPT !.models = ModelImports(analysis.resolved),
                                    !.others = OtherImports(analysis.resolved)]
    /\ pc' = "fields"
    /\ UNCHANGED contextFixed

\* MODEL_FIELDS: every shown model import is read; a read that throws ends
\* the callback in its catch clause.
ExpandModels ==
    /\ pc = "fields"
    /\ IF SectionReadThrows(fsys, cwd, Take(analysis.models, ModelFieldsShown))
       THEN Finish(MarkerEntry(FALSE, "ERROR", analysis.path, <<>>))
       ELSE pc' = "outlines" /\ UNCHANGED analysis
    /\ UNCHANGED contextFixed

\* DEPENDENCY_OUTLINES likewise, then the source window and the return.
OutlineOthers ==
    /\ pc = "outlines"
    /\ IF SectionReadThrows(fsys, cwd, Take(analysis.others, DependencyOutlinesShown))
       THEN Finish(MarkerEntry(FALSE, "ERROR", analysis.path, <<>>))
       ELSE Finish([FileEntry(fsys, cwd, analysis.path, 0, 0,
                              LinesOf(fsys, cwd, analysis.path))
                      EXCEPT !.sections =
                               SectionsOf(fsys, cwd, analysis.acc, analysis.fallback,
                                          analysis.resolved)])
    /\ UNCHANGED contextFixed

NextContext ==
    \/ ReadSource
    \/ ScanImports
    \/ RunFallback
    \/ Classify
    \/ ExpandModels
    \/ OutlineOthers

SpecContext == InitContext /\ [][NextContext]_vars

\* The parts of the java branch taken one at a time give the entry the
\* callback computes.
ContextStepsAgree ==
    pc = "done" => analysis.entry = FullContextOutcome(fsys, cwd, analysis.path, 0, 0)

---------------------------------------------------------------------------
(* Properties of the import analysis.                                      *)

\* p lies below the directory root.
Below(root, p) == root # NoPath /\ startsWith(p, root \o <<"/">>)

AllBelow(root, items) ==
    \A n \in 1..Len(items) : Below(root, items[n].resolvedPath)

\* C11: every path the resolver reports for a file (by direct resolution,
\* by the search of the module directories, or by the simple-name fallback)
\* lies below the project root found for that file, and nothing is resolved
\* for a file that has no project root.
C11_ResolvedBelowRoot ==
    /\ AllBelow(findProjectRoot(fsys, cwd, analysis.path), analysis.acc.resolved)
    /\ AllBelow(findProjectRoot(fsys, cwd, analysis.path), analysis.fallback)
    /\ AllBelow(findProjectRoot(fsys, cwd, analysis.path), analysis.resolved)

\* The analysis of the file under /p has resolved one import in the module
\* directory and another by the fallback.
C11_Witness ==
    /\ pc = "done"
    /\ analysis.path = ContextFilePath
    /\ \E n \in 1..Len(analysis.acc.resolved) :
          analysis.acc.resolved[n].resolvedPath = UserDaoPath
    /\ \E n \in 1..Len(analysis.fallback) :
          analysis.fallback[n].resolvedPath = HelperPath

\* The import statements of the analysed file that carry the project prefix.
PrefixedImports ==
    LET ls == LinesOf(fsys, cwd, analysis.path)
        Prefixed(className) ==
            startsWith(className, ProjectPrefix(PackageOf(ls)) \o <<".">>)
    IN  Filter(ImportsOf(ls), Prefixed)

\* Those of them that are not from an annotation package.
RetainedImports ==
    LET Retained(className) == ~includes(className, <<".", "annotation", ".">>) IN
        Filter(PrefixedImports, Retained)

\* The number of the given imports whose simple name is name.
ImportsNamed(imports, name) ==
    Cardinality({n \in 1..Len(imports) : SimpleNameOf(imports[n]) = name})

\* No import with the simple name was resolved by the import loop.
NoneResolvedNamed(name) ==
    \A n \in 1..Len(analysis.acc.resolved) :
        SimpleNameOf(analysis.acc.resolved[n].className) # name

\* C12 as stated: a simple name is passed to the fallback only if it occurs
\* exactly once among the project-prefixed imports of the file and no import
\* with that simple name was resolved.
C12_OnceAmongPrefixed ==
    \A n \in 1..Len(analysis.candidates) :
        /\ ImportsNamed(PrefixedImports, analysis.candidates[n]) = 1
        /\ NoneResolvedNamed(analysis.candidates[n])

\* C12: a simple name is passed to the fallback only if it occurs exactly
\* once among the project-prefixed imports of the file that are not from an
\* annotation package, and no import with that simple name was resolved.
C12_OnceAmongRetained ==
    \A n \in 1..Len(analysis.candidates) :
        /\ ImportsNamed(RetainedImports, analysis.candidates[n]) = 1
        /\ NoneResolvedNamed(analysis.candidates[n])

\* The fallback has run for a simple name that an annotation import of the
\* file carries too, and has found its file.
C12_Witness ==
    /\ pc = "classify"
    /\ analysis.candidates = <<<<"Helper">>>>
    /\ ImportsNamed(PrefixedImports, <<"Helper">>) = 2
    /\ analysis.fallback # <<>>

\* C13: when the file of a resolved import cannot be read, the entry of the
\* analysed file is still its header, its sections and its source window.
C13_UnreadableImportSkipped ==
    (pc = "done" /\ Readable(fsys, cwd, analysis.path)) =>
        /\ analysis.entry.kind = "FILE"
        /\ analysis.entry.body = LinesOf(fsys, cwd, analysis.path)

\* The entry of the analysed file prints the fields of the model file UserDTO.
UserDTOExpanded ==
    /\ pc = "done"
    /\ analysis.entry.kind = "FILE"
    /\ \E n \in 1..Len(analysis.models) : analysis.models[n].resolvedPath = UserDTOPath

\* Some line of MODEL_FIELDS includes the text.
FieldsSectionHas(text) ==
    \E n \in 1..Len(analysis.entry.sections.modelFields) :
        includes(analysis.entry.sections.modelFields[n], text)

IsLineComment(ls, i) == startsWith(trim(ls[i]), LineComment)

\* Line i of the file declares a field.
DeclaresField(ls, i) ==
    /\ ~IsLineComment(ls, i)
    /\ ~includes(ls[i], <<"(">>)
    /\ JavaFieldMatch(trim(ls[i])) # <<>>

\* The line MODEL_FIELDS is to print for the field declared on line i with
\* the given comment.
FieldLineOf(ls, i, comment) ==
    JavaFieldMatch(trim(ls[i]))[1].name \o <<" ", "|", " ">>
        \o JavaFieldMatch(trim(ls[i]))[1].type \o <<" ", "|", " ">> \o comment

\* The files of the imports the analysis resolved can all be read.
ImportsReadable ==
    \A n \in 1..Len(analysis.resolved) :
        Readable(fsys, cwd, analysis.resolved[n].resolvedPath)

ClassificationVocabulary ==
    {"dto", "vo", "entity", "model", "po", "bo", "query", "request", "response", "enum"}

\* The simple name ends with a word of the vocabulary, or a directory of the
\* path is named one.
InVocabulary(item) ==
    \/ ToLower(item.className[Len(item.className)]) \in ClassificationVocabulary
    \/ \E n \in 1..(Len(Segments(item.resolvedPath)) - 1) :
          \E word \in ClassificationVocabulary :
              LowerCase(Segments(item.resolvedPath)[n]) = <<word>>

InGroup(group, item) == \E n \in 1..Len(group) : group[n] = item

\* C18: every resolved import is in exactly one of the groups model-like and
\* other, and it is model-like whenever its simple name ends with a word of
\* the vocabulary or its path has a directory named one, which depends on
\* the name and the path alone.
C18_ClassifiedByVocabulary ==
    pc \in {"fields", "outlines", "done"} =>
        \A n \in 1..Len(analysis.resolved) :
            /\ InGroup(analysis.models, analysis.resolved[n])
                 # InGroup(analysis.others, analysis.resolved[n])
            /\ InVocabulary(analysis.resolved[n])
                 => InGroup(analysis.models, analysis.resolved[n])

\* The classification has put a class under a /vo/ directory, whose name is
\* not of the vocabulary, with the models, and another class with the others.
C18_Witness ==
    /\ pc = "done"
    /\ \E n \in 1..Len(analysis.models) : analysis.models[n].resolvedPath = HelperPath
    /\ \E n \in 1..Len(analysis.others) : analysis.others[n].resolvedPath = UserDaoPath

---------------------------------------------------------------------------
(* Properties of the directory walks.                                      *)

\* The directory names the walks are said to stay out of.
StatedIgnoreSet ==
    {<<".", "git">>, <<".", "idea">>, <<".", "vscode">>, <<"node_modules">>,
     <<"dist">>, <<"build">>, <<"out">>, <<"target">>, <<".", "gradle">>,
     <<".", "mvn">>}

\* A directory above the file has a name of the set.
LiesUnderIgnored(f) ==
    \E n \in 1..(Len(Segments(f)) - 1) : Segments(f)[n] \in StatedIgnoreSet

\* C21: no file that lies under a directory of the ignore set (.git, .idea,
\* .vscode, node_modules, dist, build, out, target, .gradle, .mvn) is
\* returned as a resolution result by the walks of the import analysis.
C21_NoResultUnderIgnored ==
    /\ \A n \in 1..Len(analysis.acc.resolved) :
          ~LiesUnderIgnored(analysis.acc.resolved[n].resolvedPath)
    /\ \A n \in 1..Len(analysis.fallback) :
          ~LiesUnderIgnored(analysis.fallback[n].resolvedPath)

---------------------------------------------------------------------------
(* Properties of the implementation traversal.                             *)

\* The blocks of a query's text block that are implementation snippets.
ImplSnippets(blocks) ==
    LET IsImpl(b) == startsWith(b[1], <<"--- Impl match: ">>) IN Filter(blocks, IsImpl)

\* C22: the implementation snippets of a query are labelled i/n, n being the
\* number of implementation snippets emitted for the query and i running
\* from 1 to n in emission order; a candidate path that does not exist or
\* does not hold the item is not counted in n.
C22_LabelledByRankAmongEmitted ==
    (pc = "responded" /\ tool = CodeItemTool /\ response.kind = "results") =>
        \A k \in 1..Len(order) :
            \A j \in 1..Len(ImplSnippets(response.entries[k])) :
                ImplSnippets(response.entries[k])[j][1]
                    = ImplHeader(buildImplClassName(order[k].File), j,
                                 Len(ImplSnippets(response.entries[k])))

---------------------------------------------------------------------------
(* Model-field extraction over the files of a few lines.                   *)

MaxFieldLines == 3

NoteLine == <<" ", " ", "/", "/", " ", "note">>
DocLine == <<" ", " ", "/", "*", "*", " ", "doc", " ", "*", "/">>
DocOpenLine == <<" ", " ", "/", "*", "*">>
DocEndLine == <<" ", " ", " ", "*", "/">>
NameField == <<" ", " ", "private", " ", "String", " ", "name", ";">>
IdField == <<" ", " ", "private", " ", "Long", " ", "id", ";">>
ClassHeader == <<"public", " ", "class", " ", "User", " ", "{">>
CallLine == <<" ", " ", "init", "(", ")", ";">>

FieldLineKinds == {NoteLine, DocLine, DocOpenLine, DocEndLine, Blank, Annotation,
                   NameField, IdField, ClassHeader, CallLine}

FieldFiles == {<<>>} \cup SeqsUpTo(FieldLineKinds, MaxFieldLines)

InitFields ==
    /\ lines \in FieldFiles
    /\ fieldInfos = <<>>
    /\ language = Unused
    /\ outlineItems = Unused
    /\ hitIndex = Unused /\ frame = Unused /\ blockRange = Unused
    /\ snippet = Unused
    /\ BatchUnused
    /\ WalkUnused
    /\ ContextUnused
    /\ pc = "extract"

\* extractJavaFieldDetails(content) on the lines of the file.
ExtractFields ==
    /\ pc = "extract"
    /\ fieldInfos' = extractJavaFieldDetails(lines)
    /\ pc' = "extracted"
    /\ UNCHANGED <<lines, hitIndex, frame, blockRange, snippet, batchVars, walkVars,
                   analysis, language, outlineItems>>

NextFields == ExtractFields

SpecFields == InitFields /\ [][NextFields]_vars

---------------------------------------------------------------------------
(* Properties of the model-field extraction.                               *)

\* Line i opens a block comment.
OpensBlock(ls, i) == startsWith(trim(ls[i]), BlockOpen)

\* Line i is a field declaration the scan is to look at: not a comment
\* line, not an annotation line, no "(" on it.
FieldDeclaredAt(ls, i) ==
    /\ DeclaresField(ls, i)
    /\ ~OpensBlock(ls, i)
    /\ ~startsWith(trim(ls[i]), <<"@">>)

\* The rank of line i among the field declarations of a file.
FieldRank(ls, i) == Cardinality({j \in 1..i : FieldDeclaredAt(ls, j)})

\* Line i is neither a comment nor an annotation nor a field: a blank line,
\* a class header, a statement.
OtherLine(ls, i) ==
    /\ ~IsLineComment(ls, i)
    /\ ~OpensBlock(ls, i)
    /\ ~startsWith(trim(ls[i]), <<"@">>)
    /\ ~FieldDeclaredAt(ls, i)

\* C23: the pending comment is cleared when a field consumes it and when a
\* line that is neither a comment nor an annotation intervenes: in a file
\* without block comments, a field right below a blank line, a class header
\* or a statement gets an empty comment, and so does a field right below
\* another field.
C23_CommentClearedByOtherLine ==
    pc = "extracted" =>
        \A i \in 2..Len(lines) :
            (/\ \A j \in 1..i : ~OpensBlock(lines, j)
             /\ FieldDeclaredAt(lines, i)
             /\ OtherLine(lines, i - 1) \/ FieldDeclaredAt(lines, i - 1))
                => /\ FieldRank(lines, i) <= Len(fieldInfos)
                   /\ fieldInfos[FieldRank(lines, i)].comment = <<>>

\* The lines of a file from line i on that lie outside a block comment; open
\* tells whether a block comment is open when line i starts.  A block
\* comment ends on the first line with "*/" after its opening, which may be
\* the line it opens on.
RECURSIVE OutsideComment(_, _, _)
OutsideComment(ls, i, open) ==
    IF i > Len(ls) THEN {}
    ELSE IF open
    THEN OutsideComment(ls, i + 1, ~includes(ls[i], BlockClose))
    ELSE IF OpensBlock(ls, i)
    THEN OutsideComment(ls, i + 1,
                        ~includes(SubSeq(trim(ls[i]), 4, Len(trim(ls[i]))), BlockClose))
    ELSE {i} \cup OutsideComment(ls, i + 1, FALSE)

\* The field declaration lines outside the comments, in file order.
DeclaredOutsideComments(ls) ==
    Ascending({i \in OutsideComment(ls, 1, FALSE) : FieldDeclaredAt(ls, i)})

\* C24: the extraction returns one field, in file order, for every field
\* declaration line that lies outside a comment; no declaration line is
\* skipped because of the comment before it, a block comment that opens and
\* closes on one line included.
C24_OneFieldPerDeclaration ==
    pc = "extracted" =>
        /\ Len(fieldInfos) = Len(DeclaredOutsideComments(lines))
        /\ \A n \in 1..Len(fieldInfos) :
              fieldInfos[n].name
                  = JavaFieldMatch(trim(lines[DeclaredOutsideComments(lines)[n]]))[1].name

---------------------------------------------------------------------------
(* parseOutline over the files of a few lines, for a few language ids.     *)

MaxOutlineLines == 3

MethodOpen == <<" ", " ", "public", " ", "void", " ", "m", "(", ")", " ", "{">>
AbstractMethod == <<" ", " ", "void", " ", "a", "(", ")", ";">>
NestedLine == <<"interface", " ", "I", " ", "{", " ", "class", " ", "C", " ",
                "{", " ", "}", " ", "}">>
PyDef == <<"def", " ", "f", "(", ")", ":">>

OutlineLineKinds == {Annotation, Blank, DocText, MethodOpen, Closer, AbstractMethod,
                     IdField, ClassHeader, NestedLine, PyDef}

\* Files in which the brace depth counted from a bodyless method falls
\* below zero before the next opening brace.
NestedFiles ==
    {<<ClassHeader, AbstractMethod, Closer, Closer, ClassHeader, Closer>>,
     <<AbstractMethod, Closer, Closer, MethodOpen, Closer, Closer>>}

OutlineFiles == SeqsUpTo(OutlineLineKinds, MaxOutlineLines) \cup NestedFiles

\* java and py have a catalog, txt has none.
OutlineLanguages == {<<"java">>, <<"py">>, <<"txt">>}

InitOutline ==
    /\ lines \in OutlineFiles
    /\ language \in OutlineLanguages
    /\ outlineItems = <<>>
    /\ fieldInfos = Unused
    /\ hitIndex = Unused /\ frame = Unused /\ blockRange = Unused
    /\ snippet = Unused
    /\ BatchUnused
    /\ WalkUnused
    /\ ContextUnused
    /\ pc = "parse"

\* parseOutline(content, ext) on the lines of the file.
ParseOutline ==
    /\ pc = "parse"
    /\ outlineItems' = parseOutline(lines, language)
    /\ pc' = "parsed"
    /\ UNCHANGED <<lines, hitIndex, frame, blockRange, snippet, batchVars, walkVars,
                   analysis, language, fieldInfos>>

NextOutline == ParseOutline

SpecOutline == InitOutline /\ [][NextOutline]_vars

---------------------------------------------------------------------------
(* Properties of the outline extraction.                                   *)

\* The 0-based indices of the lines some pattern of the language's catalog
\* matches, top-down.
MatchedLines ==
    Ascending({i \in 0..(Len(lines) - 1) :
                 \E k \in 1..Len(getPatternsForExtension(language)) :
                     PatternName(getPatternsForExtension(language)[k],
                                 At(lines, i)) # <<>>})

IsAnnotationLine(line) == startsWith(trim(line), <<"@">>)
IsCommentContinuation(line) ==
    startsWith(trim(line), <<"*">>) \/ startsWith(trim(line), <<"/", "/">>)

\* The annotation lines, trimmed and top-down, of a walk that goes up from
\* line j over annotation lines and comment continuations and stops at the
\* first blank line or other line.
RECURSIVE AboveUntilBlank(_, _)
AboveUntilBlank(ls, j) ==
    IF j < 0 THEN <<>>
    ELSE IF IsAnnotationLine(At(ls, j))
    THEN Append(AboveUntilBlank(ls, j - 1), trim(At(ls, j)))
    ELSE IF IsCommentContinuation(At(ls, j)) THEN AboveUntilBlank(ls, j - 1)
    ELSE <<>>

\* The same walk when it goes over blank lines too.
RECURSIVE AboveOverBlanks(_, _)
AboveOverBlanks(ls, j) ==
    IF j < 0 THEN <<>>
    ELSE IF IsAnnotationLine(At(ls, j))
    THEN Append(AboveOverBlanks(ls, j - 1), trim(At(ls, j)))
    ELSE IF IsCommentContinuation(At(ls, j)) \/ trim(At(ls, j)) = <<>>
    THEN AboveOverBlanks(ls, j - 1)
    ELSE <<>>

\* C25: the signature of a Java outline item is the trimmed text of the
\* matched line preceded by the annotation lines above it, in source order,
\* joined by single spaces; the upward walk stops at the first line that is
\* blank or is neither an annotation nor a comment continuation, so an
\* annotation above a blank line is not part of the signature.  startLine
\* stays the matched line.
C25_SignatureStopsAtBlank ==
    (pc = "parsed" /\ language = <<"java">>) =>
        /\ Len(outlineItems) = Len(MatchedLines)
        /\ \A n \in 1..Len(outlineItems) :
              /\ outlineItems[n].startLine = MatchedLines[n] + 1
              /\ outlineItems[n].signature
                   = JoinSpaced(Append(AboveUntilBlank(lines, MatchedLines[n] - 1),
                                       trim(At(lines, MatchedLines[n]))))

\* C25, amended: the signature of a Java outline item is the trimmed text of
\* the matched line preceded by the annotation lines above it, in source
\* order, joined by single spaces; the upward walk goes over blank lines and
\* comment continuations and stops at the first line that is not blank, not
\* an annotation and not a comment continuation, so an annotation separated
\* from the matched line by blank lines is part of the signature.
\* startLine stays the matched line.
C25_SignatureSkipsBlanks ==
    (pc = "parsed" /\ language = <<"java">>) =>
        /\ Len(outlineItems) = Len(MatchedLines)
        /\ \A n \in 1..Len(outlineItems) :
              /\ outlineItems[n].startLine = MatchedLines[n] + 1
              /\ outlineItems[n].signature
                   = JoinSpaced(Append(AboveOverBlanks(lines, MatchedLines[n] - 1),
                                       trim(At(lines, MatchedLines[n]))))

\* A method below a blank line below an annotation has the annotation in
\* its signature and starts on its own line.
C25_Witness ==
    /\ pc = "parsed"
    /\ language = <<"java">>
    /\ lines = <<Annotation, Blank, MethodOpen>>
    /\ Len(outlineItems) = 1
    /\ outlineItems[1].startLine = 3
    /\ outlineItems[1].signature = Annotation \o <<" ">> \o trim(MethodOpen)

\* The line (1-based) the forward scan from the 0-based line k ends on, with
\* the depth counted so far and whether an opening brace has been seen: the
\* first line after which a brace has been seen and the depth is not above
\* zero, the last line of the file when there is none.
RECURSIVE ScannedEnd(_, _, _, _)
ScannedEnd(ls, k, depth, seen) ==
    IF k > Len(ls) - 1 THEN Len(ls)
    ELSE LET after == depth + CountOf(At(ls, k), "{") - CountOf(At(ls, k), "}")
             open == seen \/ CountOf(At(ls, k), "{") > 0
         IN  IF open /\ after <= 0 THEN k + 1
             ELSE ScannedEnd(ls, k + 1, after, open)

EndsBelowZero ==
    /\ pc = "parsed"
    /\ language = <<"java">>
    /\ lines = <<ClassHeader, AbstractMethod, Closer, Closer, ClassHeader, Closer>>
    /\ outlineItems[2].type = "method"
    /\ outlineItems[2].endLine = 5

\* C27: for every content and language id, the items of parseOutline are in
\* strictly increasing startLine order, so no source line has two items;
\* every item has 1 <= startLine <= endLine <= number of lines; a field item
\* ends on the line it starts on; the empty file, whose content splits into
\* one empty line, yields the empty sequence.
C27_ItemsOrderedWithinFile ==
    pc = "parsed" =>
        /\ \A n \in 1..Len(outlineItems) :
              /\ 1 <= outlineItems[n].startLine
              /\ outlineItems[n].startLine <= outlineItems[n].endLine
              /\ outlineItems[n].endLine <= Len(lines)
              /\ outlineItems[n].type = "field"
                   => outlineItems[n].endLine = outlineItems[n].startLine
        /\ \A n \in 1..(Len(outlineItems) - 1) :
              outlineItems[n].startLine < outlineItems[n + 1].startLine
        /\ lines = <<Blank>> => outlineItems = <<>>

\* A class of three lines with a field: the class item spans the file, the
\* field item its own line.
C27_Witness ==
    /\ pc = "parsed"
    /\ language = <<"java">>
    /\ lines = <<ClassHeader, IdField, Closer>>
    /\ Len(outlineItems) = 2
    /\ outlineItems[1].startLine = 1 /\ outlineItems[1].endLine = 3
    /\ outlineItems[2].type = "field"
    /\ outlineItems[2].startLine = 2 /\ outlineItems[2].endLine = 2

\* The positions in the language's catalog of the patterns that match the
\* 0-based line i.
MatchingPatterns(i) ==
    {k \in 1..Len(getPatternsForExtension(language)) :
       PatternName(getPatternsForExtension(language)[k], At(lines, i)) # <<>>}

\* The positions in the outline of the items that start on the 0-based
\* line i.
ItemsAtLine(i) == {n \in 1..Len(outlineItems) : outlineItems[n].startLine = i + 1}

\* C29: classification is first-match-wins per line: a line that no pattern
\* of the language's catalog matches has no item; a line that one or several
\* patterns match has exactly one item, whose category and name are those
\* of the matching pattern that comes first in catalog order; a language id
\* without a catalog yields no item at all.
C29_FirstPatternWins ==
    pc = "parsed" =>
        /\ \A i \in 0..(Len(lines) - 1) :
              /\ MatchingPatterns(i) = {} => ItemsAtLine(i) = {}
              /\ MatchingPatterns(i) # {} =>
                    /\ Cardinality(ItemsAtLine(i)) = 1
                    /\ \A n \in ItemsAtLine(i) :
                         \E k \in MatchingPatterns(i) :
                             /\ \A j \in MatchingPatterns(i) : k <= j
                             /\ outlineItems[n].type
                                  = PatternType(getPatternsForExtension(language)[k])
                             /\ outlineItems[n].name
                                  = PatternName(getPatternsForExtension(language)[k],
                                                At(lines, i))[1]
        /\ language = <<"txt">> => outlineItems = <<>>

\* A line that holds an interface and, after it, a class matches the class
\* pattern and the interface pattern; its one item is the class, the class
\* pattern being first in the catalog.
C29_Witness ==
    /\ pc = "parsed"
    /\ language = <<"java">>
    /\ lines = <<NestedLine>>
    /\ Cardinality(MatchingPatterns(0)) = 2
    /\ Len(outlineItems) = 1
    /\ outlineItems[1].type = "class"
    /\ outlineItems[1].name = <<"C">>

\* Directories the process may be started in.
AmbientDirs == {WorkDir, ServiceDir}

\* C28: the result of a code-item query is a function of the query and the
\* file system only: a run started in another working directory returns,
\* for a query with an absolute file path, the same text blocks, the
\* implementation snippets and the field -> type -> path lines among them.
C28_ResultIndependentOfCwd ==
    (pc = "responded" /\ tool = CodeItemTool /\ response.kind = "results") =>
        \A k \in 1..Len(order) :
            \A d \in AmbientDirs :
                /\ ~ItemOutcome(fsys, d, order[k]).threw
                /\ response.entries[k] = ItemOutcome(fsys, d, order[k]).value

=============================================================================
